---- MODULE Spec2Model ----
(***************************************************************************)
(* Maze generation, analysis and enhancement engine of maze-maker.        *)
(*                                                                         *)
(* A grid is a function row -> col -> Cell, a Cell is the record          *)
(* [row, col, walls, visited] of maze-types.ts, a Position the record     *)
(* [row, col].  Math.random() is a nondeterministic choice (\E) over the   *)
(* values the expression it feeds can take.  JavaScript numbers that are   *)
(* not integers are exact fractions <<numerator, denominator>>.            *)
(***************************************************************************)
EXTENDS Integers, Sequences, FiniteSets, TLC

\* ------------------------------------------------------------------ bounds
\* Grids of at most MaxCells cells are explored.
MaxCells == 9

\* ------------------------------------------------------------- primitives
Pos(r, c) == [row |-> r, col |-> c]

Abs(x) == IF x < 0 THEN -x ELSE x

Min(a, b) == IF a < b THEN a ELSE b

positionsEqual(a, b) == a.row = b.row /\ a.col = b.col

GridHeight(g) == Cardinality(DOMAIN g)

GridWidth(g) == Cardinality(DOMAIN g[0])

CellAt(g, p) == g[p.row][p.col]

\* The elements of a sequence, as a set.
Range(s) == {s[i] : i \in DOMAIN s}

initializeGrid(w, h) ==
    [row \in 0..(h - 1) |->
        [col \in 0..(w - 1) |->
            [row |-> row, col |-> col,
             walls |-> [top |-> TRUE, right |-> TRUE, bottom |-> TRUE, left |-> TRUE],
             visited |-> FALSE]]]

countOpenings(cell) ==
    (IF ~cell.walls.top THEN 1 ELSE 0) + (IF ~cell.walls.right THEN 1 ELSE 0)
        + (IF ~cell.walls.bottom THEN 1 ELSE 0) + (IF ~cell.walls.left THEN 1 ELSE 0)

\* Cells reachable from `cell` through a missing wall, in the order top, right,
\* bottom, left.
getValidNeighbors(g, cell) ==
    LET row == cell.row
        col == cell.col
    IN  (IF row > 0 /\ ~cell.walls.top THEN <<g[row - 1][col]>> ELSE <<>>)
        \o (IF col < GridWidth(g) - 1 /\ ~cell.walls.right THEN <<g[row][col + 1]>> ELSE <<>>)
        \o (IF row < GridHeight(g) - 1 /\ ~cell.walls.bottom THEN <<g[row + 1][col]>> ELSE <<>>)
        \o (IF col > 0 /\ ~cell.walls.left THEN <<g[row][col - 1]>> ELSE <<>>)

getUnvisitedNeighbors(g, cell) ==
    LET row == cell.row
        col == cell.col
    IN  (IF row > 0 /\ ~g[row - 1][col].visited THEN <<g[row - 1][col]>> ELSE <<>>)
        \o (IF col < GridWidth(g) - 1 /\ ~g[row][col + 1].visited THEN <<g[row][col + 1]>> ELSE <<>>)
        \o (IF row < GridHeight(g) - 1 /\ ~g[row + 1][col].visited THEN <<g[row + 1][col]>> ELSE <<>>)
        \o (IF col > 0 /\ ~g[row][col - 1].visited THEN <<g[row][col - 1]>> ELSE <<>>)

\* cell.walls[side] = false on the cell object stored at (r, c).
ClearWall(g, r, c, side) == [g EXCEPT ![r][c].walls[side] = FALSE]

\* removeWall of the generator: the branches test rowDiff = 1 first.  A pair that
\* matches no branch leaves the grid as it is.
removeWall(g, cell1, cell2) ==
    LET rowDiff == cell2.row - cell1.row
        colDiff == cell2.col - cell1.col
    IN  IF rowDiff = 1
        THEN ClearWall(ClearWall(g, cell1.row, cell1.col, "bottom"), cell2.row, cell2.col, "top")
        ELSE IF rowDiff = -1
        THEN ClearWall(ClearWall(g, cell1.row, cell1.col, "top"), cell2.row, cell2.col, "bottom")
        ELSE IF colDiff = 1
        THEN ClearWall(ClearWall(g, cell1.row, cell1.col, "right"), cell2.row, cell2.col, "left")
        ELSE IF colDiff = -1
        THEN ClearWall(ClearWall(g, cell1.row, cell1.col, "left"), cell2.row, cell2.col, "right")
        ELSE g

MarkVisited(g, r, c) == [g EXCEPT ![r][c].visited = TRUE]

\* A reset loop that stores a fresh cell, walls and all, instead of clearing the flag.
ResetVisitedRebuild(g) ==
    [row \in DOMAIN g |-> [col \in DOMAIN g[row] |->
        [row |-> row, col |-> col,
         walls |-> [top |-> TRUE, right |-> TRUE, bottom |-> TRUE, left |-> TRUE],
         visited |-> FALSE]]]

\* The loop of generateBestMaze that clears every visited flag.
ResetVisited(g) ==
    [row \in DOMAIN g |-> [col \in DOMAIN g[row] |-> [g[row][col] EXCEPT !.visited = FALSE]]]

\* ------------------------------------------------------------------ solver
\* "No value" (null / undefined).  A solution path always holds its first
\* position, so the empty sequence is free to stand for null.
Null == <<>>

\* The Set<string> keys `${row},${col}`: one key per (row, col) pair.
Key(cell) == <<cell.row, cell.col>>

\* A for-loop that puts the neighbours at the front of the queue (unshift for push).
RECURSIVE ExploreNeighborsLifo(_, _, _, _)
ExploreNeighborsLifo(neighbors, i, path, st) ==
    IF i > Len(neighbors) THEN st
    ELSE LET neighbor == neighbors[i]
         IN  IF Key(neighbor) \notin st[1]
             THEN ExploreNeighborsLifo(neighbors, i + 1, path,
                      <<st[1] \cup {Key(neighbor)},
                        <<<<neighbor, Append(path, Pos(neighbor.row, neighbor.col))>>>> \o st[2]>>)
             ELSE ExploreNeighborsLifo(neighbors, i + 1, path, st)

\* The for-loop over the neighbours of the dequeued cell: st = <<visited, queue>>.
RECURSIVE ExploreNeighbors(_, _, _, _)
ExploreNeighbors(neighbors, i, path, st) ==
    IF i > Len(neighbors) THEN st
    ELSE LET neighbor == neighbors[i]
         IN  IF Key(neighbor) \notin st[1]
             THEN ExploreNeighbors(neighbors, i + 1, path,
                      <<st[1] \cup {Key(neighbor)},
                        Append(st[2], <<neighbor, Append(path, Pos(neighbor.row, neighbor.col))>>)>>)
             ELSE ExploreNeighbors(neighbors, i + 1, path, st)

\* A search loop that takes the newest queue entry (pop for shift).
RECURSIVE BfsLoopPop(_, _, _, _)
BfsLoopPop(g, endPos, visited, queue) ==
    IF queue = <<>> THEN Null
    ELSE LET current == queue[Len(queue)][1]
             path == queue[Len(queue)][2]
         IN  IF positionsEqual(Pos(current.row, current.col), endPos) THEN path
             ELSE LET st == ExploreNeighbors(getValidNeighbors(g, current), 1, path,
                                             <<visited, SubSeq(queue, 1, Len(queue) - 1)>>)
                  IN  BfsLoopPop(g, endPos, st[1], st[2])

\* The while-loop of findShortestPath over the FIFO queue of [cell, path] pairs.
RECURSIVE BfsLoop(_, _, _, _)
BfsLoop(g, endPos, visited, queue) ==
    IF queue = <<>> THEN Null
    ELSE LET current == Head(queue)[1]
             path == Head(queue)[2]
         IN  IF positionsEqual(Pos(current.row, current.col), endPos) THEN path
             ELSE LET st == ExploreNeighbors(getValidNeighbors(g, current), 1, path,
                                             <<visited, Tail(queue)>>)
                  IN  BfsLoop(g, endPos, st[1], st[2])

\* A search whose first queue entry carries an empty path instead of [start].
findShortestPathNoStart(maze) ==
    BfsLoop(maze.grid, maze.end, {Key(maze.start)}, <<<<CellAt(maze.grid, maze.start), <<>>>>>>)

findShortestPath(maze) ==
    BfsLoop(maze.grid, maze.end, {Key(maze.start)},
            <<<<CellAt(maze.grid, maze.start), <<maze.start>>>>>>)

\* ---------------------------------------------------------------- analyzer
\* Fractions <<n, d>> with d > 0 stand for the non-integer numbers.
FLess(a, b) == a[1] * b[2] < b[1] * a[2]

FAdd(a, b) == <<a[1] * b[2] + b[1] * a[2], a[2] * b[2]>>

FMul(a, b) == <<a[1] * b[1], a[2] * b[2]>>

FMin(a, b) == IF FLess(b, a) THEN b ELSE a

FInt(n) == <<n, 1>>

Manhattan(a, b) == Abs(a.row - b.row) + Abs(a.col - b.col)

\* The scan of distanceToPath: the first index (0-based) of the least distance.
RECURSIVE DistanceScan(_, _, _, _, _)
DistanceScan(pos, path, i, minDistance, nearestIndex) ==
    IF i > Len(path) THEN [minDistance |-> minDistance, nearestIndex |-> nearestIndex]
    ELSE LET distance == Manhattan(pos, path[i])
         IN  IF minDistance = -1 \/ distance < minDistance
             THEN DistanceScan(pos, path, i + 1, distance, i - 1)
             ELSE DistanceScan(pos, path, i + 1, minDistance, nearestIndex)

\* minDistance starts at Infinity, written -1 here.
distanceToPath(pos, path) == DistanceScan(pos, path, 1, -1, 0)

MAX_ITERATIONS_DEPTH == 1000

\* The first neighbour whose key is not in `visited`, or Null.
FirstUnvisited(neighbors, visited) ==
    LET idx == {i \in DOMAIN neighbors : Key(neighbors[i]) \notin visited}
    IN  IF idx = {} THEN Null
        ELSE <<neighbors[CHOOSE i \in idx : \A j \in idx : i <= j]>>

\* A walk that breaks at a cell with one opening without counting it.
DepthLoopUncounted(g, depth, current, visited, iterations) ==
    IF countOpenings(current) = 1 THEN depth ELSE depth + 1

RECURSIVE DepthLoop(_, _, _, _, _)
DepthLoop(g, depth, current, visited, iterations) ==
    IF ~(iterations < MAX_ITERATIONS_DEPTH) THEN depth
    ELSE LET seen == visited \cup {Key(current)}
             openings == countOpenings(current)
         IN  IF openings > 2 THEN depth
             ELSE IF openings = 1 THEN depth + 1
             ELSE IF openings = 2
             THEN LET unvisitedNeighbor == FirstUnvisited(getValidNeighbors(g, current), seen)
                  IN  IF unvisitedNeighbor = Null THEN depth + 1
                      ELSE DepthLoop(g, depth + 1, unvisitedNeighbor[1], seen, iterations + 1)
             ELSE depth

calculateDeadEndDepth(g, startCell) == DepthLoop(g, 0, startCell, {}, 0)

\* The value of `iterations` when the loop of calculateDeadEndDepth is left.
RECURSIVE DepthLoopIterations(_, _, _, _)
DepthLoopIterations(g, current, visited, iterations) ==
    IF ~(iterations < MAX_ITERATIONS_DEPTH) THEN iterations
    ELSE LET seen == visited \cup {Key(current)}
         IN  IF countOpenings(current) = 2
             THEN LET unvisitedNeighbor == FirstUnvisited(getValidNeighbors(g, current), seen)
                  IN  IF unvisitedNeighbor = Null THEN iterations + 1
                      ELSE DepthLoopIterations(g, unvisitedNeighbor[1], seen, iterations + 1)
             ELSE iterations + 1

\* One DeadEndInfo record for the cell at (row, col); solutionPath may be Null.
DeadEndInfo(g, row, col, solutionPath, endPos) ==
    LET position == Pos(row, col)
        near == distanceToPath(position, solutionPath)
    IN  [position |-> position,
         depth |-> calculateDeadEndDepth(g, g[row][col]),
         distanceToEnd |-> Abs(row - endPos.row) + Abs(col - endPos.col),
         nearSolution |-> near.minDistance # -1 /\ near.minDistance <= 2,
         distanceAlongSolution |-> near.nearestIndex]

\* The row-major scan of identifyDeadEnds, from cell number k on.
RECURSIVE DeadEndScan(_, _, _, _)
DeadEndScan(g, k, solutionPath, endPos) ==
    LET w == GridWidth(g)
        row == k \div w
        col == k % w
    IN  IF k >= w * GridHeight(g) THEN <<>>
        ELSE (IF countOpenings(g[row][col]) = 1
              THEN <<DeadEndInfo(g, row, col, solutionPath, endPos)>>
              ELSE <<>>)
             \o DeadEndScan(g, k + 1, solutionPath, endPos)

identifyDeadEnds(g, solutionPath, endPos) == DeadEndScan(g, 0, solutionPath, endPos)

getDirection(from, to) ==
    IF to.row < from.row THEN "up"
    ELSE IF to.row > from.row THEN "down"
    ELSE IF to.col < from.col THEN "left"
    ELSE IF to.col > from.col THEN "right"
    ELSE "none"

calculateTortuosity(solutionPath, startPos, endPos) ==
    IF Len(solutionPath) < 3 THEN FInt(0)
    ELSE LET directionChanges ==
                 Cardinality({i \in 2..(Len(solutionPath) - 1) :
                     getDirection(solutionPath[i - 1], solutionPath[i])
                         # getDirection(solutionPath[i], solutionPath[i + 1])})
             manhattanDistance == Abs(endPos.row - startPos.row) + Abs(endPos.col - startPos.col)
         IN  IF manhattanDistance > 0 THEN <<directionChanges, manhattanDistance>> ELSE FInt(0)

\* Terms whose length score divides by width + height, as scoreMaze does.
ComplexityTermsPerimeter(solutionLength, tortuosity, avgDeadEndLength, decoyDeadEnds, w, h) ==
    [lengthScore |-> <<solutionLength * 30, w + h>>,
     tortuosityScore |-> FMin(FMul(tortuosity, FInt(10)), FInt(30)),
     deadEndScore |-> FMin(FMul(avgDeadEndLength, FInt(4)), FInt(25)),
     decoyScore |-> FInt(Min(decoyDeadEnds * 2, 15))]

\* The four terms of the complexity score, before they are summed.
ComplexityTerms(solutionLength, tortuosity, avgDeadEndLength, decoyDeadEnds, w, h) ==
    [lengthScore |-> <<solutionLength * 30, w * h>>,
     tortuosityScore |-> FMin(FMul(tortuosity, FInt(10)), FInt(30)),
     deadEndScore |-> FMin(FMul(avgDeadEndLength, FInt(4)), FInt(25)),
     decoyScore |-> FInt(Min(decoyDeadEnds * 2, 15))]

calculateComplexityScore(solutionLength, tortuosity, avgDeadEndLength, decoyDeadEnds, w, h) ==
    LET t == ComplexityTerms(solutionLength, tortuosity, avgDeadEndLength, decoyDeadEnds, w, h)
    IN  FMin(FAdd(FAdd(FAdd(t.lengthScore, t.tortuosityScore), t.deadEndScore), t.decoyScore),
             FInt(100))

RECURSIVE SumDepth(_, _)
SumDepth(deadEnds, i) ==
    IF i > Len(deadEnds) THEN 0 ELSE deadEnds[i].depth + SumDepth(deadEnds, i + 1)

MaxDepth(deadEnds) ==
    CHOOSE d \in {deadEnds[i].depth : i \in DOMAIN deadEnds} :
        \A i \in DOMAIN deadEnds : deadEnds[i].depth <= d

analyzeMazeQuality(maze, solutionPath) ==
    LET solutionLength == Len(solutionPath)
        solutionTortuosity == calculateTortuosity(solutionPath, maze.start, maze.end)
        deadEnds == identifyDeadEnds(maze.grid, solutionPath, maze.end)
        averageDeadEndLength ==
            IF Len(deadEnds) > 0 THEN <<SumDepth(deadEnds, 1), Len(deadEnds)>> ELSE FInt(0)
        maxDeadEndLength == IF Len(deadEnds) > 0 THEN MaxDepth(deadEnds) ELSE 0
        decoyDeadEnds == Cardinality({i \in DOMAIN deadEnds : deadEnds[i].nearSolution})
    IN  [solutionLength |-> solutionLength,
         solutionTortuosity |-> solutionTortuosity,
         averageDeadEndLength |-> averageDeadEndLength,
         maxDeadEndLength |-> maxDeadEndLength,
         decoyDeadEnds |-> decoyDeadEnds,
         complexityScore |->
             calculateComplexityScore(solutionLength, solutionTortuosity, averageDeadEndLength,
                                      decoyDeadEnds, maze.width, maze.height)]

\* ------------------------------------------------------------------- state
VARIABLES
    width, height,      \* the dimensions asked for
    config,             \* the MazeGenerationConfig asked for (Null for generateMaze)
    pc,                 \* the position in the running function
    caller,             \* what runs carveMaze: "generateMaze", "attempt" or "fallback"
    grid,               \* the grid being built (Null before initializeGrid)
    stack,              \* carveMaze: the stack of cells, as positions
    start, end,         \* maze.start, maze.end (Null before they are set)
    solutionPath,       \* maze.solutionPath (Null: absent)
    deadEnds,           \* maze.deadEnds (Null: absent)
    metrics,            \* maze.metrics (Null: absent)
    attempt,            \* generateBestMaze: the loop counter
    candidates,         \* generateBestMaze: the retained mazes, in order
    search,             \* selectMaximumDistance: [i, bestStart, bestEnd, maxPathLength]
    work,               \* extendDeadEnds: toExtend; addDecoyPaths: the sorted candidates
    idx,                \* the loop index into work (0-based)
    walk,               \* extendDeadEnd / carveDecoyPath: [current, done, visited,
                        \*   iterations, targetLength]
    result,             \* the value returned (Null until the return)
    difficulty,         \* MazeGame: the difficulty state
    mazeState,          \* MazeGame: the maze on screen (Null before the first one)
    playerState         \* MazeGame: [position, path, hasWon]

mazeVars == <<grid, start, end, solutionPath, deadEnds, metrics>>

argVars == <<width, height, config>>

enhVars == <<work, idx, walk>>

sessionVars == <<difficulty, mazeState, playerState>>

vars == <<width, height, config, pc, caller, grid, stack, start, end, solutionPath,
          deadEnds, metrics, attempt, candidates, search, work, idx, walk, result,
          difficulty, mazeState, playerState>>

\* The grid dimensions explored: every width x height of at most MaxCells cells.
Dims == {d \in (1..MaxCells) \X (1..MaxCells) : d[1] * d[2] <= MaxCells}

\* The functions are called outside the MazeGame component.
NoSession ==
    /\ difficulty = Null
    /\ mazeState = Null
    /\ playerState = Null

\* Nothing built yet: the locals and the maze fields before a call has set them.
Idle ==
    /\ grid = Null
    /\ stack = <<>>
    /\ start = Null
    /\ end = Null
    /\ solutionPath = Null
    /\ deadEnds = Null
    /\ metrics = Null
    /\ attempt = 0
    /\ candidates = <<>>
    /\ search = Null
    /\ work = <<>>
    /\ idx = 0
    /\ walk = Null
    /\ result = Null

\* A MazeState / EnhancedMazeState object; an optional field that is absent is Null.
MazeRecord(g, w, h, s, e, path, des, m) ==
    [grid |-> g, width |-> w, height |-> h, start |-> s, end |-> e,
     solutionPath |-> path, deadEnds |-> des, metrics |-> m]

\* ------------------------------------------------------------------ carver
\* A carveMaze that pushes the origin without marking it visited.
CarveStartUnmarked(g, origin) == g

\* carveMaze up to its loop: the origin is marked visited and pushed.
CarveStart(g, origin) == MarkVisited(g, origin.row, origin.col)

\* One iteration of the carveMaze loop that finds an unvisited neighbour: a random
\* one is chosen, the wall to it removed, and it is marked and pushed.
CarveAdvance ==
    /\ pc = "carve"
    /\ stack # <<>>
    /\ LET current == CellAt(grid, stack[Len(stack)])
           unvisitedNeighbors == getUnvisitedNeighbors(grid, current)
       IN  /\ Len(unvisitedNeighbors) > 0
           /\ \E randomIndex \in 1..Len(unvisitedNeighbors) :
                LET chosen == unvisitedNeighbors[randomIndex]
                IN  /\ grid' = MarkVisited(removeWall(grid, current, chosen), chosen.row, chosen.col)
                    /\ stack' = Append(stack, Pos(chosen.row, chosen.col))
    /\ UNCHANGED <<argVars, sessionVars, pc, caller, start, end, solutionPath, deadEnds, metrics,
                   attempt, candidates, search, enhVars, result>>

\* One iteration of the carveMaze loop that finds none: backtrack.
CarveBacktrack ==
    /\ pc = "carve"
    /\ stack # <<>>
    /\ Len(getUnvisitedNeighbors(grid, CellAt(grid, stack[Len(stack)]))) = 0
    /\ stack' = SubSeq(stack, 1, Len(stack) - 1)
    /\ UNCHANGED <<argVars, sessionVars, pc, caller, mazeVars, attempt, candidates, search, enhVars,
                   result>>

\* ----------------------------------------------- generateMaze (deprecated)
GenerateMazeCall ==
    /\ pc = "start"
    /\ caller = "generateMaze"
    /\ grid' = CarveStart(initializeGrid(width, height), Pos(0, 0))
    /\ stack' = <<Pos(0, 0)>>
    /\ start' = Pos(0, 0)
    /\ pc' = "carve"
    /\ UNCHANGED <<argVars, sessionVars, caller, end, solutionPath, deadEnds, metrics, attempt,
                   candidates, search, enhVars, result>>

GenerateMazeReturn ==
    /\ pc = "carve"
    /\ caller = "generateMaze"
    /\ stack = <<>>
    /\ end' = Pos(height - 1, width - 1)
    /\ result' = MazeRecord(grid, width, height, start, Pos(height - 1, width - 1),
                            Null, Null, Null)
    /\ pc' = "done"
    /\ UNCHANGED <<argVars, sessionVars, caller, grid, stack, start, solutionPath, deadEnds, metrics,
                   attempt, candidates, search, enhVars>>

InitCarve ==
    /\ \E d \in Dims : width = d[1] /\ height = d[2]
    /\ config = Null
    /\ pc = "start"
    /\ NoSession
    /\ caller = "generateMaze"
    /\ Idle

NextCarve == GenerateMazeCall \/ CarveAdvance \/ CarveBacktrack \/ GenerateMazeReturn

SpecCarve == InitCarve /\ [][NextCarve]_vars

\* --------------------------------------------------------------- placement
\* Each selector is the set of {start, end} pairs its random draws can return.
\* Math.floor(Math.random() * n) is any of 0 .. n-1.
\* A selector whose end lies on the right border whichever border start is on.
selectOppositeEdgesRight(w, h) ==
    {[start |-> Pos(0, c1), end |-> Pos(r2, w - 1)] : c1 \in 0..(w - 1), r2 \in 0..(h - 1)}
        \cup {[start |-> Pos(r1, 0), end |-> Pos(r2, w - 1)] : r1 \in 0..(h - 1), r2 \in 0..(h - 1)}

selectOppositeEdges(w, h) ==
    {[start |-> Pos(0, c1), end |-> Pos(h - 1, c2)] : c1 \in 0..(w - 1), c2 \in 0..(w - 1)}
        \cup {[start |-> Pos(r1, 0), end |-> Pos(r2, w - 1)] : r1 \in 0..(h - 1), r2 \in 0..(h - 1)}

MAX_PLACEMENT_ATTEMPTS == 100

\* Math.floor((width + height) * 0.7): the product is within rounding of
\* 7 * (width + height) / 10 and rounds to it when that is an integer.
RandomFarMinDistance(w, h) == (7 * (w + h)) \div 10

\* One pass of the do-while body of selectRandomFar: start anywhere, end in the
\* opposite quadrant.  x < n / 2 is 2 * x < n, Math.floor(n / 2) is n \div 2.
RandomFarDraws(w, h) ==
    UNION {
        LET startQuadRow == 2 * r < h
            startQuadCol == 2 * c < w
            endRowMin == IF startQuadRow THEN h \div 2 ELSE 0
            endRowMax == IF startQuadRow THEN h ELSE h \div 2
            endColMin == IF startQuadCol THEN w \div 2 ELSE 0
            endColMax == IF startQuadCol THEN w ELSE w \div 2
        IN  {[start |-> Pos(r, c), end |-> Pos(er, ec)] :
                er \in endRowMin..(endRowMax - 1), ec \in endColMin..(endColMax - 1)}
        : r \in 0..(h - 1), c \in 0..(w - 1)}

\* ---------------------------------------------------------------- enhancer
isInBounds(row, col, h, w) == row >= 0 /\ row < h /\ col >= 0 /\ col < w

\* Neighbours behind a standing wall, in the order top, right, bottom, left.
\* A getWalledNeighbors that lists every in-bounds neighbour, walled or not.
getWalledNeighborsOrOpen(g, cell) ==
    LET row == cell.row
        col == cell.col
    IN  (IF row > 0
         THEN <<[cell |-> g[row - 1][col], direction |-> "top"]>> ELSE <<>>)
        \o (IF col < GridWidth(g) - 1
            THEN <<[cell |-> g[row][col + 1], direction |-> "right"]>> ELSE <<>>)
        \o (IF row < GridHeight(g) - 1
            THEN <<[cell |-> g[row + 1][col], direction |-> "bottom"]>> ELSE <<>>)
        \o (IF col > 0
            THEN <<[cell |-> g[row][col - 1], direction |-> "left"]>> ELSE <<>>)

getWalledNeighbors(g, cell) ==
    LET row == cell.row
        col == cell.col
    IN  (IF row > 0 /\ cell.walls.top
         THEN <<[cell |-> g[row - 1][col], direction |-> "top"]>> ELSE <<>>)
        \o (IF col < GridWidth(g) - 1 /\ cell.walls.right
            THEN <<[cell |-> g[row][col + 1], direction |-> "right"]>> ELSE <<>>)
        \o (IF row < GridHeight(g) - 1 /\ cell.walls.bottom
            THEN <<[cell |-> g[row + 1][col], direction |-> "bottom"]>> ELSE <<>>)
        \o (IF col > 0 /\ cell.walls.left
            THEN <<[cell |-> g[row][col - 1], direction |-> "left"]>> ELSE <<>>)

\* A removeWall that clears the flag of cell1 only.
enhRemoveWallOneSided(g, cell1, cell2) ==
    LET rowDiff == cell2.row - cell1.row
        colDiff == cell2.col - cell1.col
    IN  IF rowDiff = -1 THEN ClearWall(g, cell1.row, cell1.col, "top")
        ELSE IF rowDiff = 1 THEN ClearWall(g, cell1.row, cell1.col, "bottom")
        ELSE IF colDiff = -1 THEN ClearWall(g, cell1.row, cell1.col, "left")
        ELSE IF colDiff = 1 THEN ClearWall(g, cell1.row, cell1.col, "right")
        ELSE g

\* A removeWall that stores a new walls object, open on the one side only, in
\* both cells.
OnlyOpen(side) == [s \in {"top", "right", "bottom", "left"} |-> s # side]

enhRemoveWallRebuild(g, cell1, cell2) ==
    LET rowDiff == cell2.row - cell1.row
        colDiff == cell2.col - cell1.col
        put(side1, side2) ==
            [g EXCEPT ![cell1.row][cell1.col].walls = OnlyOpen(side1),
                      ![cell2.row][cell2.col].walls = OnlyOpen(side2)]
    IN  IF rowDiff = -1 THEN put("top", "bottom")
        ELSE IF rowDiff = 1 THEN put("bottom", "top")
        ELSE IF colDiff = -1 THEN put("left", "right")
        ELSE IF colDiff = 1 THEN put("right", "left")
        ELSE g

\* removeWall of the enhancer: the branches test rowDiff = -1 first.
enhRemoveWall(g, cell1, cell2) ==
    LET rowDiff == cell2.row - cell1.row
        colDiff == cell2.col - cell1.col
    IN  IF rowDiff = -1
        THEN ClearWall(ClearWall(g, cell1.row, cell1.col, "top"), cell2.row, cell2.col, "bottom")
        ELSE IF rowDiff = 1
        THEN ClearWall(ClearWall(g, cell1.row, cell1.col, "bottom"), cell2.row, cell2.col, "top")
        ELSE IF colDiff = -1
        THEN ClearWall(ClearWall(g, cell1.row, cell1.col, "left"), cell2.row, cell2.col, "right")
        ELSE IF colDiff = 1
        THEN ClearWall(ClearWall(g, cell1.row, cell1.col, "right"), cell2.row, cell2.col, "left")
        ELSE g

\* The values calculateTargetExtension can return.  Math.floor(a + Math.random() * n)
\* is any of a .. a+n-1; index / length < 0.3 is 10 * index < 3 * length.  An index
\* of 0 is falsy, like an absent one.
calculateTargetExtension(deadEnd, path) ==
    IF deadEnd.distanceAlongSolution = 0 THEN {3}
    ELSE IF 10 * deadEnd.distanceAlongSolution < 3 * Len(path) THEN 5..8
    ELSE IF 10 * deadEnd.distanceAlongSolution < 7 * Len(path) THEN 3..5
    ELSE 2..3

scoreExtensionDirection(currentRow, currentCol, direction, endRow, endCol) ==
    LET newRow == IF direction = "top" THEN currentRow - 1
                  ELSE IF direction = "bottom" THEN currentRow + 1 ELSE currentRow
        newCol == IF direction = "top" \/ direction = "bottom" THEN currentCol
                  ELSE IF direction = "left" THEN currentCol - 1
                  ELSE IF direction = "right" THEN currentCol + 1 ELSE currentCol
        distanceBefore == Abs(currentRow - endRow) + Abs(currentCol - endCol)
        distanceAfter == Abs(newRow - endRow) + Abs(newCol - endCol)
    IN  distanceAfter - distanceBefore

\* Array.prototype.sort is stable: seq ordered by Before(a, b), equal elements in
\* their original order.  Before is a strict weak order on the elements.
StableSort(seq, Before(_, _)) ==
    LET rank(i) == Cardinality({j \in DOMAIN seq :
                        Before(seq[j], seq[i]) \/ (~Before(seq[i], seq[j]) /\ j < i)})
    IN  [k \in DOMAIN seq |-> seq[CHOOSE i \in DOMAIN seq : rank(i) = k - 1]]

MAX_ITERATIONS_WALK == 100

\* The walled neighbours of `current` with their scores, best score first.
ScoredNeighbors(g, current, endPos) ==
    LET walledNeighbors == getWalledNeighbors(g, current)
        scored == [i \in DOMAIN walledNeighbors |->
                      [cell |-> walledNeighbors[i].cell,
                       direction |-> walledNeighbors[i].direction,
                       score |-> scoreExtensionDirection(current.row, current.col,
                                     walledNeighbors[i].direction, endPos.row, endPos.col)]]
    IN  StableSort(scored, LAMBDA a, b : a.score > b.score)

\* A for-loop that skips visited cells only, whatever their openings.
ExtensionOptionsAnyOpenings(g, current, visited, endPos) ==
    SelectSeq(ScoredNeighbors(g, current, endPos),
              LAMBDA option : Key(option.cell) \notin visited)

\* The options the for-loop of extendDeadEnd does not skip, in its order.
ExtensionOptions(g, current, visited, endPos) ==
    SelectSeq(ScoredNeighbors(g, current, endPos),
              LAMBDA option : Key(option.cell) \notin visited
                                  /\ ~(countOpenings(option.cell) > 1))

\* extendDeadEnds up to its loop: the near-solution dead ends, earliest along the
\* solution first, cut to deadEndExtensions.
ToExtend(deadEndList, enhancement) ==
    LET nearSolution == SelectSeq(deadEndList, LAMBDA de : de.nearSolution)
        sorted == StableSort(nearSolution,
                      LAMBDA a, b : a.distanceAlongSolution < b.distanceAlongSolution)
    IN  SubSeq(sorted, 1, Min(enhancement.deadEndExtensions, Len(sorted)))

isOnSolutionPath(pos, path) ==
    \E i \in DOMAIN path : path[i].row = pos.row /\ path[i].col = pos.col

\* quality = middleness * 10 + (4 - openings) * 2 with
\* middleness = 1 - |i / length - 0.5| * 2 = (length - |2i - length|) / length.
DecoyQuality(i, length, openings) ==
    <<10 * (length - Abs(2 * i - length)) + (4 - openings) * 2 * length, length>>

\* The candidates of path cell number i (0-based) of addDecoyPaths.
DecoyCandidatesAt(g, path, i) ==
    LET pathPos == path[i + 1]
        walledNeighbors == getWalledNeighbors(g, g[pathPos.row][pathPos.col])
        offPath == SelectSeq(walledNeighbors,
                       LAMBDA n : ~isOnSolutionPath(Pos(n.cell.row, n.cell.col), path))
    IN  [k \in DOMAIN offPath |->
            [cell |-> Pos(offPath[k].cell.row, offPath[k].cell.col),
             quality |-> DecoyQuality(i, Len(path), countOpenings(offPath[k].cell)),
             pathIndex |-> i]]

RECURSIVE DecoyCandidates(_, _, _)
DecoyCandidates(g, path, i) ==
    IF i >= Len(path) THEN <<>>
    ELSE DecoyCandidatesAt(g, path, i) \o DecoyCandidates(g, path, i + 1)

\* The first n entries of the candidates sorted by quality, best first.  Two
\* qualities that are equal as fractions can differ in their last bit as
\* floating-point numbers, so candidates of equal quality come in any order.
RECURSIVE SortedPrefixes(_, _, _)
SortedPrefixes(cands, remaining, n) ==
    IF n = 0 \/ remaining = {} THEN {<<>>}
    ELSE LET best == {i \in remaining :
                         \A j \in remaining : ~FLess(cands[i].quality, cands[j].quality)}
         IN  UNION {{<<cands[i]>> \o rest : rest \in SortedPrefixes(cands, remaining \ {i}, n - 1)}
                    : i \in best}

\* A filter that keeps cells of the solution path among the options.
DecoyOptionsOnPath(g, current, visited, path) ==
    SelectSeq(getWalledNeighbors(g, current),
              LAMBDA n : /\ Key(n.cell) \notin visited
                         /\ countOpenings(n.cell) <= 1)

\* The options carveDecoyPath keeps.
DecoyOptions(g, current, visited, path) ==
    SelectSeq(getWalledNeighbors(g, current),
              LAMBDA n : /\ Key(n.cell) \notin visited
                         /\ ~isOnSolutionPath(Pos(n.cell.row, n.cell.col), path)
                         /\ countOpenings(n.cell) <= 1)

\* ------------------------------------------------------------ orchestrator
EnhancementConfig(minLength, extensions, decoys, prioritize) ==
    [deadEndMinLength |-> minLength, deadEndExtensions |-> extensions,
     decoyPathCount |-> decoys, prioritizeEarlyDeadEnds |-> prioritize]

SelectionCriteria(tortuosity, deadEnd, decoy, length) ==
    [tortuosityWeight |-> tortuosity, deadEndWeight |-> deadEnd,
     decoyWeight |-> decoy, lengthWeight |-> length]

GenerationConfig(strategy, enhancement, criteria, attempts) ==
    [placementStrategy |-> strategy, enhancement |-> enhancement,
     selectionCriteria |-> criteria, qualityAttempts |-> attempts]

\* Presets with the enhancement switched on: two extensions and three decoys.
getDifficultyConfigEnhancing(level) ==
    [dimensions |-> [width |-> 10, height |-> 10],
     generationConfig |->
         GenerationConfig("opposite-edges", EnhancementConfig(2, 2, 3, TRUE),
             SelectionCriteria(<<1, 1>>, <<1, 2>>, <<3, 10>>, <<1, 2>>), 1)]

\* The presets; the weights 0.5, 0.3, ... are the fractions 1/2, 3/10, ...
getDifficultyConfig(level) ==
    IF level = "easy"
    THEN [dimensions |-> [width |-> 10, height |-> 10],
          generationConfig |->
              GenerationConfig("opposite-edges", EnhancementConfig(2, 0, 0, TRUE),
                  SelectionCriteria(<<1, 1>>, <<1, 2>>, <<3, 10>>, <<1, 2>>), 1)]
    ELSE IF level = "medium"
    THEN [dimensions |-> [width |-> 15, height |-> 15],
          generationConfig |->
              GenerationConfig("random-far", EnhancementConfig(3, 0, 0, TRUE),
                  SelectionCriteria(<<3, 2>>, <<1, 1>>, <<7, 10>>, <<4, 5>>), 1)]
    ELSE [dimensions |-> [width |-> 20, height |-> 20],
          generationConfig |->
              GenerationConfig("random-far", EnhancementConfig(4, 0, 0, TRUE),
                  SelectionCriteria(<<2, 1>>, <<3, 2>>, <<6, 5>>, <<1, 1>>), 1)]

scoreMaze(maze, cfg) ==
    IF maze.metrics = Null THEN FInt(0)
    ELSE LET m == maze.metrics
             criteria == cfg.selectionCriteria
         IN  FAdd(FAdd(FAdd(FMul(m.solutionTortuosity, criteria.tortuosityWeight),
                            FMul(m.averageDeadEndLength, criteria.deadEndWeight)),
                       FMul(FInt(m.decoyDeadEnds), criteria.decoyWeight)),
                  FMul(<<m.solutionLength, maze.width + maze.height>>, criteria.lengthWeight))

\* A reduce that also replaces best on an equal score (>= for >).
RECURSIVE ReduceBestLast(_, _, _, _)
ReduceBestLast(cands, i, best, cfg) ==
    IF i > Len(cands) THEN best
    ELSE ReduceBestLast(cands, i + 1,
             IF ~FLess(scoreMaze(cands[i], cfg), scoreMaze(best, cfg)) THEN cands[i] ELSE best,
             cfg)

\* candidates.reduce without an initial value: best starts as the first candidate
\* and is replaced by a later one only when that one scores strictly higher.
RECURSIVE ReduceBest(_, _, _, _)
ReduceBest(cands, i, best, cfg) ==
    IF i > Len(cands) THEN best
    ELSE ReduceBest(cands, i + 1,
             IF FLess(scoreMaze(best, cfg), scoreMaze(cands[i], cfg)) THEN cands[i] ELSE best,
             cfg)

\* The for-loop of generateBestMaze starts an attempt: a fresh grid, carved from (0,0).
AttemptBegin ==
    /\ pc = "loop"
    /\ attempt < config.qualityAttempts
    /\ grid' = CarveStart(initializeGrid(width, height), Pos(0, 0))
    /\ stack' = <<Pos(0, 0)>>
    /\ start' = Null
    /\ end' = Null
    /\ solutionPath' = Null
    /\ deadEnds' = Null
    /\ metrics' = Null
    /\ caller' = "attempt"
    /\ pc' = "carve"
    /\ UNCHANGED <<argVars, sessionVars, attempt, candidates, search, enhVars, result>>

MAX_DISTANCE_ATTEMPTS == 20

\* carveMaze has returned to the attempt: the visited flags are reset and
\* selectStartEndPositions is entered.
CarveReturnAttempt ==
    /\ pc = "carve"
    /\ caller = "attempt"
    /\ stack = <<>>
    /\ grid' = ResetVisited(grid)
    /\ search' = IF config.placementStrategy = "maximum-distance"
                 THEN [i |-> 0, bestStart |-> Pos(0, 0),
                       bestEnd |-> Pos(height - 1, width - 1), maxPathLength |-> 0]
                 ELSE IF config.placementStrategy = "random-far"
                 THEN [attempts |-> 0]
                 ELSE search
    /\ pc' = "place"
    /\ UNCHANGED <<argVars, sessionVars, caller, stack, start, end, solutionPath, deadEnds, metrics,
                   attempt, candidates, enhVars, result>>

\* selectOppositeEdges returns a pair.
SelectStartEnd ==
    /\ pc = "place"
    /\ config.placementStrategy = "opposite-edges"
    /\ \E p \in selectOppositeEdges(width, height) :
          /\ start' = p.start
          /\ end' = p.end
    /\ pc' = "solve"
    /\ UNCHANGED <<argVars, sessionVars, caller, grid, stack, solutionPath, deadEnds, metrics, attempt,
                   candidates, search, enhVars, result>>

\* A selectRandomFar whose loop never repeats: the first pair drawn is returned.
SelectRandomFarPassOnce ==
    /\ pc = "place"
    /\ config.placementStrategy = "random-far"
    /\ \E d \in RandomFarDraws(width, height) :
          /\ start' = d.start
          /\ end' = d.end
    /\ search' = <<>>
    /\ pc' = "solve"
    /\ UNCHANGED <<argVars, sessionVars, caller, grid, stack, solutionPath, deadEnds, metrics, attempt,
                   candidates, enhVars, result>>

\* One pass of the do-while loop of selectRandomFar: a pair is drawn and attempts
\* is incremented; the loop goes on while the pair is closer than minDistance and
\* fewer than 100 passes were made, and otherwise the pair is returned.
SelectRandomFarPass ==
    /\ pc = "place"
    /\ config.placementStrategy = "random-far"
    /\ \E d \in RandomFarDraws(width, height) :
          LET attempts == search.attempts + 1
          IN  IF /\ Manhattan(d.start, d.end) < RandomFarMinDistance(width, height)
                 /\ attempts < MAX_PLACEMENT_ATTEMPTS
              THEN /\ search' = [attempts |-> attempts]
                   /\ UNCHANGED <<pc, start, end>>
              ELSE /\ start' = d.start
                   /\ end' = d.end
                   /\ search' = <<>>
                   /\ pc' = "solve"
    /\ UNCHANGED <<argVars, sessionVars, caller, grid, stack, solutionPath, deadEnds, metrics, attempt,
                   candidates, enhVars, result>>

\* One pass of the loop of selectMaximumDistance.
MaxDistanceStep ==
    /\ pc = "place"
    /\ config.placementStrategy = "maximum-distance"
    /\ search.i < MAX_DISTANCE_ATTEMPTS
    /\ \E sr \in 0..(height - 1), sc \in 0..(width - 1),
          er \in 0..(height - 1), ec \in 0..(width - 1) :
          LET s == Pos(sr, sc)
              e == Pos(er, ec)
              path == findShortestPath(MazeRecord(grid, width, height, s, e, Null, Null, Null))
          IN  search' =
                  IF s.row = e.row /\ s.col = e.col THEN [search EXCEPT !.i = @ + 1]
                  ELSE IF path # Null /\ Len(path) > search.maxPathLength
                  THEN [i |-> search.i + 1, bestStart |-> s, bestEnd |-> e,
                        maxPathLength |-> Len(path)]
                  ELSE [search EXCEPT !.i = @ + 1]
    /\ UNCHANGED <<argVars, sessionVars, pc, caller, mazeVars, stack, attempt, candidates, enhVars, result>>

MaxDistanceReturn ==
    /\ pc = "place"
    /\ config.placementStrategy = "maximum-distance"
    /\ ~(search.i < MAX_DISTANCE_ATTEMPTS)
    /\ start' = search.bestStart
    /\ end' = search.bestEnd
    /\ pc' = "solve"
    /\ UNCHANGED <<argVars, sessionVars, caller, grid, stack, solutionPath, deadEnds, metrics, attempt,
                   candidates, search, enhVars, result>>

\* The attempt solves and analyses the placed maze.  Without a path the attempt
\* is skipped; otherwise enhanceMaze is entered and extendDeadEnds picks its
\* dead ends.
SolveAndAnalyze ==
    /\ pc = "solve"
    /\ LET maze == MazeRecord(grid, width, height, start, end, Null, Null, Null)
           path == findShortestPath(maze)
       IN  IF path = Null
           THEN /\ attempt' = attempt + 1
                /\ pc' = "loop"
                /\ UNCHANGED <<solutionPath, deadEnds, metrics, work, idx>>
           ELSE /\ solutionPath' = path
                /\ deadEnds' = identifyDeadEnds(grid, path, end)
                /\ metrics' = analyzeMazeQuality(maze, path)
                /\ work' = ToExtend(identifyDeadEnds(grid, path, end), config.enhancement)
                /\ idx' = 0
                /\ pc' = "extend"
                /\ UNCHANGED attempt
    /\ UNCHANGED <<argVars, sessionVars, caller, grid, stack, start, end, candidates, search, walk, result>>

\* The loop of extendDeadEnds reaches a dead end: a target length is drawn and,
\* if the dead end is shorter, extendDeadEnd is entered.
ExtendDeadEndCall ==
    /\ pc = "extend"
    /\ idx < Len(work)
    /\ LET deadEnd == work[idx + 1]
       IN  \E targetLength \in (IF config.enhancement.prioritizeEarlyDeadEnds
                                THEN calculateTargetExtension(deadEnd, solutionPath)
                                ELSE {config.enhancement.deadEndMinLength}) :
              IF deadEnd.depth < targetLength
              THEN /\ walk' = [current |-> deadEnd.position, done |-> 0, visited |-> {},
                               iterations |-> 0, targetLength |-> targetLength - deadEnd.depth]
                   /\ pc' = "extending"
                   /\ idx' = idx
              ELSE /\ idx' = idx + 1
                   /\ UNCHANGED <<walk, pc>>
    /\ UNCHANGED <<argVars, sessionVars, caller, mazeVars, stack, attempt, candidates, search, work, result>>

\* A pass of a while-loop of extendDeadEnd whose condition is the iteration cap
\* alone, without extended < targetLength.
ExtendDeadEndStepUncounted ==
    /\ pc = "extending"
    /\ walk.iterations < MAX_ITERATIONS_WALK
    /\ LET current == CellAt(grid, walk.current)
           visited == walk.visited \cup {Key(current)}
           iterations == walk.iterations + 1
           options == ExtensionOptions(grid, current, visited, end)
       IN  IF Len(getWalledNeighbors(grid, current)) = 0 \/ Len(options) = 0
           THEN /\ walk' = [walk EXCEPT !.visited = visited, !.iterations = iterations]
                /\ idx' = idx + 1
                /\ pc' = "extend"
                /\ UNCHANGED grid
           ELSE LET neighbor == options[1].cell
                    g == enhRemoveWall(grid, current, neighbor)
                    extended == walk.done + 1
                IN  /\ grid' = g
                    /\ walk' = [current |-> Pos(neighbor.row, neighbor.col), done |-> extended,
                                visited |-> visited, iterations |-> iterations,
                                targetLength |-> walk.targetLength]
                    /\ IF countOpenings(g[neighbor.row][neighbor.col]) > 2
                          \/ ~(iterations < MAX_ITERATIONS_WALK)
                       THEN idx' = idx + 1 /\ pc' = "extend"
                       ELSE idx' = idx /\ pc' = "extending"
    /\ UNCHANGED <<argVars, sessionVars, caller, stack, start, end, solutionPath, deadEnds, metrics,
                   attempt, candidates, search, work, result>>


\* One pass of the while-loop of extendDeadEnd.  When the pass breaks, or the
\* loop condition fails after it, extendDeadEnd returns to the loop of
\* extendDeadEnds.
ExtendDeadEndStep ==
    /\ pc = "extending"
    /\ walk.done < walk.targetLength /\ walk.iterations < MAX_ITERATIONS_WALK
    /\ LET current == CellAt(grid, walk.current)
           visited == walk.visited \cup {Key(current)}
           iterations == walk.iterations + 1
           options == ExtensionOptions(grid, current, visited, end)
       IN  IF Len(getWalledNeighbors(grid, current)) = 0 \/ Len(options) = 0
           THEN /\ walk' = [walk EXCEPT !.visited = visited, !.iterations = iterations]
                /\ idx' = idx + 1
                /\ pc' = "extend"
                /\ UNCHANGED grid
           ELSE LET neighbor == options[1].cell
                    g == enhRemoveWall(grid, current, neighbor)
                    extended == walk.done + 1
                IN  /\ grid' = g
                    /\ walk' = [current |-> Pos(neighbor.row, neighbor.col), done |-> extended,
                                visited |-> visited, iterations |-> iterations,
                                targetLength |-> walk.targetLength]
                    /\ IF countOpenings(g[neighbor.row][neighbor.col]) > 2
                          \/ ~(extended < walk.targetLength /\ iterations < MAX_ITERATIONS_WALK)
                       THEN idx' = idx + 1 /\ pc' = "extend"
                       ELSE idx' = idx /\ pc' = "extending"
    /\ UNCHANGED <<argVars, sessionVars, caller, stack, start, end, solutionPath, deadEnds, metrics,
                   attempt, candidates, search, work, result>>

\* extendDeadEnds has returned; addDecoyPaths collects and sorts its candidates.
AddDecoyPathsCall ==
    /\ pc = "extend"
    /\ ~(idx < Len(work))
    /\ LET cands == DecoyCandidates(grid, solutionPath, 0)
           created == Min(config.enhancement.decoyPathCount, Len(cands))
       IN  \E sorted \in SortedPrefixes(cands, DOMAIN cands, created) : work' = sorted
    /\ idx' = 0
    /\ pc' = "decoy"
    /\ UNCHANGED <<argVars, sessionVars, caller, mazeVars, stack, attempt, candidates, search, walk, result>>

DECOY_MIN_LENGTH == 3

DECOY_MAX_LENGTH == 6

\* The loop of addDecoyPaths reaches a candidate: carveDecoyPath draws its length.
CarveDecoyPathCall ==
    /\ pc = "decoy"
    /\ idx < Len(work)
    /\ \E targetLength \in DECOY_MIN_LENGTH..DECOY_MAX_LENGTH :
          walk' = [current |-> work[idx + 1].cell, done |-> 0, visited |-> {},
                   iterations |-> 0, targetLength |-> targetLength]
    /\ pc' = "decoying"
    /\ UNCHANGED <<argVars, sessionVars, caller, mazeVars, stack, attempt, candidates, search, work, idx,
                   result>>

\* One pass of the while-loop of carveDecoyPath, returning to addDecoyPaths when
\* the pass breaks or the loop condition fails after it.
CarveDecoyPathStep ==
    /\ pc = "decoying"
    /\ walk.done < walk.targetLength /\ walk.iterations < MAX_ITERATIONS_WALK
    /\ LET current == CellAt(grid, walk.current)
           visited == walk.visited \cup {Key(current)}
           iterations == walk.iterations + 1
           validOptions == DecoyOptions(grid, current, visited, solutionPath)
       IN  IF Len(validOptions) = 0
           THEN /\ walk' = [walk EXCEPT !.visited = visited, !.iterations = iterations]
                /\ idx' = idx + 1
                /\ pc' = "decoy"
                /\ UNCHANGED grid
           ELSE \E k \in 1..Len(validOptions) :
                    LET chosen == validOptions[k].cell
                        g == enhRemoveWall(grid, current, chosen)
                        carved == walk.done + 1
                    IN  /\ grid' = g
                        /\ walk' = [current |-> Pos(chosen.row, chosen.col), done |-> carved,
                                    visited |-> visited, iterations |-> iterations,
                                    targetLength |-> walk.targetLength]
                        /\ IF countOpenings(g[chosen.row][chosen.col]) > 2
                              \/ ~(carved < walk.targetLength /\ iterations < MAX_ITERATIONS_WALK)
                           THEN idx' = idx + 1 /\ pc' = "decoy"
                           ELSE idx' = idx /\ pc' = "decoying"
    /\ UNCHANGED <<argVars, sessionVars, caller, stack, start, end, solutionPath, deadEnds, metrics,
                   attempt, candidates, search, work, result>>

\* addDecoyPaths has returned: enhanceMaze solves again and, with a path, stores
\* the new path, dead ends and metrics; the attempt keeps the maze as a candidate.
EnhanceMazeReturn ==
    /\ pc = "decoy"
    /\ ~(idx < Len(work))
    /\ LET maze == MazeRecord(grid, width, height, start, end, solutionPath, deadEnds, metrics)
           newSolution == findShortestPath(maze)
           enhanced == IF newSolution = Null THEN maze
                       ELSE [maze EXCEPT !.solutionPath = newSolution,
                                         !.deadEnds = identifyDeadEnds(grid, newSolution, end),
                                         !.metrics = analyzeMazeQuality(maze, newSolution)]
       IN  /\ solutionPath' = enhanced.solutionPath
           /\ deadEnds' = enhanced.deadEnds
           /\ metrics' = enhanced.metrics
           /\ candidates' = Append(candidates, enhanced)
    /\ attempt' = attempt + 1
    /\ work' = <<>>
    /\ idx' = 0
    /\ walk' = Null
    /\ pc' = "loop"
    /\ UNCHANGED <<argVars, sessionVars, caller, grid, stack, start, end, search, result>>

\* The attempts are over and at least one candidate was kept: the best is returned.
SelectBest ==
    /\ pc = "loop"
    /\ ~(attempt < config.qualityAttempts)
    /\ Len(candidates) # 0
    /\ result' = ReduceBest(candidates, 2, candidates[1], config)
    /\ pc' = "done"
    /\ UNCHANGED <<argVars, sessionVars, caller, mazeVars, stack, attempt, candidates, search, enhVars>>

\* The attempts are over and no candidate was kept: a fresh grid is carved.
FallbackBegin ==
    /\ pc = "loop"
    /\ ~(attempt < config.qualityAttempts)
    /\ Len(candidates) = 0
    /\ grid' = CarveStart(initializeGrid(width, height), Pos(0, 0))
    /\ stack' = <<Pos(0, 0)>>
    /\ start' = Null
    /\ end' = Null
    /\ solutionPath' = Null
    /\ deadEnds' = Null
    /\ metrics' = Null
    /\ caller' = "fallback"
    /\ pc' = "carve"
    /\ UNCHANGED <<argVars, sessionVars, attempt, candidates, search, enhVars, result>>

\* A fallback whose end has row and column swapped.
FallbackReturnSwapped ==
    /\ pc = "carve"
    /\ caller = "fallback"
    /\ stack = <<>>
    /\ start' = Pos(0, 0)
    /\ end' = Pos(width - 1, height - 1)
    /\ result' = MazeRecord(grid, width, height, Pos(0, 0), Pos(width - 1, height - 1),
                            Null, Null, Null)
    /\ pc' = "done"
    /\ UNCHANGED <<argVars, sessionVars, caller, grid, stack, solutionPath, deadEnds, metrics, attempt,
                   candidates, search, enhVars>>

\* The fallback maze is returned as carved, with the corner endpoints.
FallbackReturn ==
    /\ pc = "carve"
    /\ caller = "fallback"
    /\ stack = <<>>
    /\ start' = Pos(0, 0)
    /\ end' = Pos(height - 1, width - 1)
    /\ result' = MazeRecord(grid, width, height, Pos(0, 0), Pos(height - 1, width - 1),
                            Null, Null, Null)
    /\ pc' = "done"
    /\ UNCHANGED <<argVars, sessionVars, caller, grid, stack, solutionPath, deadEnds, metrics, attempt,
                   candidates, search, enhVars>>

\* ---------------------------------------------------------- specifications
Scenario(w, h, cfg) == [width |-> w, height |-> h, config |-> cfg]

\* generateBestMaze(width, height, config) is called.
InitBest(scenarios) ==
    /\ \E sc \in scenarios : width = sc.width /\ height = sc.height /\ config = sc.config
    /\ pc = "loop"
    /\ NoSession
    /\ caller = "none"
    /\ Idle

\* The steps every run of generateBestMaze with one attempt or more takes.
NextAttempt ==
    \/ AttemptBegin
    \/ CarveAdvance
    \/ CarveBacktrack
    \/ CarveReturnAttempt
    \/ SelectStartEnd
    \/ SolveAndAnalyze
    \/ AddDecoyPathsCall
    \/ EnhanceMazeReturn
    \/ SelectBest

\* The steps of the dead-end extension and of the decoy carving.
NextEnhancement ==
    \/ ExtendDeadEndCall
    \/ ExtendDeadEndStep
    \/ CarveDecoyPathCall
    \/ CarveDecoyPathStep

\* The steps of the maximum-distance placement and of the fallback.
NextOther ==
    \/ MaxDistanceStep
    \/ MaxDistanceReturn
    \/ FallbackBegin
    \/ FallbackReturn

Difficulties == {"easy", "medium", "hard"}

\* generateMazeForDifficulty: the preset configurations.  The preset grids (100 to
\* 400 cells) are beyond exhaustive carving, so each preset configuration runs
\* on every explored grid size.  The presets switch the extension and the decoys
\* off, so the steps of NextEnhancement and NextOther are never enabled.
PresetScenarios ==
    {Scenario(d[1], d[2], getDifficultyConfig(x).generationConfig) :
        d \in Dims, x \in Difficulties}

Init == InitBest(PresetScenarios)

Next == NextAttempt \/ SelectRandomFarPass

Spec == Init /\ [][Next]_vars

\* generateBestMaze with the enhancement switched on.  A grid one cell wide has no
\* wall left after carving, so the grids are at least 2 x 2.
MaxExtensions == 2

MaxDecoys == 2

EnhanceDims == {d \in Dims : d[1] >= 2 /\ d[2] >= 2}

EnhanceScenarios ==
    {Scenario(d[1], d[2],
         GenerationConfig("opposite-edges", EnhancementConfig(pm[2], e, k, pm[1]),
                          getDifficultyConfig("easy").generationConfig.selectionCriteria, 1)) :
        d \in EnhanceDims, e \in {0, MaxExtensions}, k \in {0, MaxDecoys},
        pm \in {<<TRUE, 2>>, <<FALSE, 3>>}}

InitEnhance == InitBest(EnhanceScenarios)

NextEnhance == NextAttempt \/ NextEnhancement

SpecEnhance == InitEnhance /\ [][NextEnhance]_vars

\* generateBestMaze with zero to MaxAttempts attempts, and with the
\* maximum-distance placement; no enhancement.
MaxAttempts == 2

MaxCellsBest == 6

BestDims == {d \in Dims : d[1] * d[2] <= MaxCellsBest}

BestScenarios ==
    {Scenario(d[1], d[2],
         GenerationConfig("opposite-edges", EnhancementConfig(2, 0, 0, TRUE),
                          getDifficultyConfig(x).generationConfig.selectionCriteria, n)) :
        d \in BestDims, x \in {"medium"}, n \in 0..MaxAttempts}
    \cup
    {Scenario(d[1], d[2],
         GenerationConfig("maximum-distance", EnhancementConfig(2, 0, 0, TRUE),
                          getDifficultyConfig("easy").generationConfig.selectionCriteria, 1)) :
        d \in BestDims}

InitBestOf == InitBest(BestScenarios)

NextBestOf == NextAttempt \/ NextOther

SpecBest == InitBestOf /\ [][NextBestOf]_vars

\* findShortestPath and the analyzer on any grid with consistent walls: the
\* calls generateBestMaze makes on a placed maze, without the enhancement.
MaxCellsSolve == 6

SolveDims == {d \in Dims : d[1] * d[2] <= MaxCellsSolve}

\* The pairs of cells that share a wall: <<upper or left cell, other cell>>.
InnerWalls(w, h) ==
    {<<Pos(r, c), Pos(r, c + 1)>> : r \in 0..(h - 1), c \in 0..(w - 2)}
        \cup {<<Pos(r, c), Pos(r + 1, c)>> : r \in 0..(h - 2), c \in 0..(w - 1)}

\* The grid in which exactly the inner walls of `open` are missing.
GridWithOpen(w, h, open) ==
    [row \in 0..(h - 1) |->
        [col \in 0..(w - 1) |->
            [row |-> row, col |-> col,
             walls |-> [top |-> <<Pos(row - 1, col), Pos(row, col)>> \notin open,
                        right |-> <<Pos(row, col), Pos(row, col + 1)>> \notin open,
                        bottom |-> <<Pos(row, col), Pos(row + 1, col)>> \notin open,
                        left |-> <<Pos(row, col - 1), Pos(row, col)>> \notin open],
             visited |-> FALSE]]]

InitSolve ==
    /\ \E d \in SolveDims :
          /\ width = d[1]
          /\ height = d[2]
          /\ \E open \in SUBSET InnerWalls(d[1], d[2]) : grid = GridWithOpen(d[1], d[2], open)
          /\ \E sr \in 0..(d[2] - 1), sc \in 0..(d[1] - 1) : start = Pos(sr, sc)
          /\ \E er \in 0..(d[2] - 1), ec \in 0..(d[1] - 1) : end = Pos(er, ec)
    /\ config = Null
    /\ pc = "solve"
    /\ NoSession
    /\ caller = "none"
    /\ stack = <<>>
    /\ solutionPath = Null
    /\ deadEnds = Null
    /\ metrics = Null
    /\ attempt = 0
    /\ candidates = <<>>
    /\ search = Null
    /\ work = <<>>
    /\ idx = 0
    /\ walk = Null
    /\ result = Null

\* findShortestPath(maze) and, with a path, identifyDeadEnds and analyzeMazeQuality.
AnalyzeCall ==
    /\ pc = "solve"
    /\ config = Null
    /\ LET maze == MazeRecord(grid, width, height, start, end, Null, Null, Null)
           path == findShortestPath(maze)
       IN  /\ solutionPath' = path
           /\ deadEnds' = IF path = Null THEN Null ELSE identifyDeadEnds(grid, path, end)
           /\ metrics' = IF path = Null THEN Null ELSE analyzeMazeQuality(maze, path)
    /\ pc' = "done"
    /\ UNCHANGED <<argVars, sessionVars, caller, grid, stack, start, end, attempt, candidates, search,
                   enhVars, result>>

\* The analyzer run a second time on the maze it has already measured while
\* marking the cells it walks in the grid, as the carver does.
ReanalyzeCallMarking ==
    /\ pc = "done"
    /\ config = Null
    /\ solutionPath # Null
    /\ LET maze == MazeRecord(grid, width, height, start, end, Null, Null, Null)
           des == identifyDeadEnds(grid, solutionPath, end)
       IN  /\ result' = [path |-> findShortestPath(maze),
                         deadEnds |-> des,
                         metrics |-> analyzeMazeQuality(maze, solutionPath)]
           /\ grid' = [r \in DOMAIN grid |-> [c \in DOMAIN grid[r] |->
                        IF \E i \in 1..Len(des) : des[i].position = Pos(r, c)
                        THEN [grid[r][c] EXCEPT !.visited = TRUE]
                        ELSE grid[r][c]]]
    /\ pc' = "reanalyzed"
    /\ UNCHANGED <<argVars, sessionVars, caller, stack, start, end, solutionPath, deadEnds, metrics,
                   attempt, candidates, search, enhVars>>

\* findShortestPath, identifyDeadEnds and analyzeMazeQuality called again on the
\* maze of AnalyzeCall: they read the grid and keep their visited sets in locals.
ReanalyzeCall ==
    /\ pc = "done"
    /\ config = Null
    /\ solutionPath # Null
    /\ LET maze == MazeRecord(grid, width, height, start, end, Null, Null, Null)
       IN  result' = [path |-> findShortestPath(maze),
                      deadEnds |-> identifyDeadEnds(grid, solutionPath, end),
                      metrics |-> analyzeMazeQuality(maze, solutionPath)]
    /\ pc' = "reanalyzed"
    /\ UNCHANGED <<argVars, sessionVars, caller, grid, stack, start, end, solutionPath, deadEnds,
                   metrics, attempt, candidates, search, enhVars>>

NextSolve == AnalyzeCall \/ ReanalyzeCall

SpecSolve == InitSolve /\ [][NextSolve]_vars

\* enhanceMaze(maze, config) on any solved maze with consistent walls, carved or
\* not: the part of an attempt of generateBestMaze from the solver on.
MaxCellsAny == 6

AnyDims == {d \in Dims : d[1] * d[2] <= MaxCellsAny /\ d[1] >= 2 /\ d[2] >= 2}

AnyConfigs ==
    {GenerationConfig("opposite-edges", EnhancementConfig(pm[2], MaxExtensions, MaxDecoys, pm[1]),
                      getDifficultyConfig("easy").generationConfig.selectionCriteria, 1) :
        pm \in {<<TRUE, 2>>, <<FALSE, 3>>}}

InitEnhanceAny ==
    /\ \E d \in AnyDims :
          /\ width = d[1]
          /\ height = d[2]
          /\ \E open \in SUBSET InnerWalls(d[1], d[2]) : grid = GridWithOpen(d[1], d[2], open)
          /\ \E sr \in 0..(d[2] - 1), sc \in 0..(d[1] - 1) : start = Pos(sr, sc)
          /\ \E er \in 0..(d[2] - 1), ec \in 0..(d[1] - 1) : end = Pos(er, ec)
    /\ config \in AnyConfigs
    /\ pc = "solve"
    /\ NoSession
    /\ caller = "attempt"
    /\ stack = <<>>
    /\ solutionPath = Null
    /\ deadEnds = Null
    /\ metrics = Null
    /\ attempt = 0
    /\ candidates = <<>>
    /\ search = Null
    /\ work = <<>>
    /\ idx = 0
    /\ walk = Null
    /\ result = Null

NextEnhanceAny ==
    \/ SolveAndAnalyze
    \/ NextEnhancement
    \/ AddDecoyPathsCall
    \/ EnhanceMazeReturn

SpecEnhanceAny == InitEnhanceAny /\ [][NextEnhanceAny]_vars

\* removeWall(cell1, cell2) of either file, called on any two cells of a fresh
\* grid: walk holds the two arguments.
InitRemoveWall ==
    /\ \E d \in Dims :
          /\ width = d[1]
          /\ height = d[2]
          /\ grid = initializeGrid(d[1], d[2])
          /\ \E r1 \in 0..(d[2] - 1), c1 \in 0..(d[1] - 1),
                r2 \in 0..(d[2] - 1), c2 \in 0..(d[1] - 1) :
                walk = [cell1 |-> Pos(r1, c1), cell2 |-> Pos(r2, c2)]
    /\ config = Null
    /\ pc = "removeWall"
    /\ NoSession
    /\ caller = "none"
    /\ stack = <<>>
    /\ start = Null
    /\ end = Null
    /\ solutionPath = Null
    /\ deadEnds = Null
    /\ metrics = Null
    /\ attempt = 0
    /\ candidates = <<>>
    /\ search = Null
    /\ work = <<>>
    /\ idx = 0
    /\ result = Null

\* removeWall of the generator runs to its end: it has no throw statement, so it
\* returns (undefined) whatever the pair is.
RemoveWallCall ==
    /\ pc = "removeWall"
    /\ grid' = removeWall(grid, CellAt(grid, walk.cell1), CellAt(grid, walk.cell2))
    /\ result' = [threw |-> FALSE]
    /\ caller' = "generator"
    /\ pc' = "done"
    /\ UNCHANGED <<argVars, sessionVars, stack, start, end, solutionPath, deadEnds, metrics, attempt,
                   candidates, search, enhVars>>

\* removeWall of the enhancer, likewise.
EnhRemoveWallCall ==
    /\ pc = "removeWall"
    /\ grid' = enhRemoveWall(grid, CellAt(grid, walk.cell1), CellAt(grid, walk.cell2))
    /\ result' = [threw |-> FALSE]
    /\ caller' = "enhancer"
    /\ pc' = "done"
    /\ UNCHANGED <<argVars, sessionVars, stack, start, end, solutionPath, deadEnds, metrics, attempt,
                   candidates, search, enhVars>>

NextRemoveWall == RemoveWallCall \/ EnhRemoveWallCall

SpecRemoveWall == InitRemoveWall /\ [][NextRemoveWall]_vars

\* ----------------------------------------------------------------- session
\* The game logic and the MazeGame component that calls it.
Directions == {"up", "down", "left", "right"}

getNewPosition(current, direction) ==
    IF direction = "up" THEN Pos(current.row - 1, current.col)
    ELSE IF direction = "down" THEN Pos(current.row + 1, current.col)
    ELSE IF direction = "left" THEN Pos(current.row, current.col - 1)
    ELSE Pos(current.row, current.col + 1)

\* A canMove that checks the bounds only.
canMoveThroughWalls(maze, from, direction) ==
    LET newPos == getNewPosition(from, direction)
    IN  ~(newPos.row < 0 \/ newPos.row >= maze.height
            \/ newPos.col < 0 \/ newPos.col >= maze.width)

canMove(maze, from, direction) ==
    LET newPos == getNewPosition(from, direction)
        cell == maze.grid[from.row][from.col]
    IN  IF newPos.row < 0 \/ newPos.row >= maze.height
            \/ newPos.col < 0 \/ newPos.col >= maze.width
        THEN FALSE
        ELSE IF direction = "up" THEN ~cell.walls.top
        ELSE IF direction = "down" THEN ~cell.walls.bottom
        ELSE IF direction = "left" THEN ~cell.walls.left
        ELSE ~cell.walls.right

\* An isBacktracking that never reports a backtrack.
isBacktrackingNever(path, newPos) == FALSE

isBacktracking(path, newPos) ==
    IF Len(path) < 2 THEN FALSE
    ELSE LET secondToLast == path[Len(path) - 1]
         IN  secondToLast.row = newPos.row /\ secondToLast.col = newPos.col

\* An updatePath that keeps the trail as it is on a backtrack.
updatePathKeeping(currentPath, newPosition) ==
    IF isBacktracking(currentPath, newPosition)
    THEN currentPath
    ELSE Append(currentPath, newPosition)

updatePath(currentPath, newPosition) ==
    IF isBacktracking(currentPath, newPosition)
    THEN SubSeq(currentPath, 1, Len(currentPath) - 1)
    ELSE Append(currentPath, newPosition)

\* A checkWin that compares the rows only.
checkWinRow(playerPos, endPos) == playerPos.row = endPos.row

checkWin(playerPos, endPos) ==
    playerPos.row = endPos.row /\ playerPos.col = endPos.col

PlayerState(position, path, hasWon) ==
    [position |-> position, path |-> path, hasWon |-> hasWon]

\* carveMaze run to its end: the grids its random choices can leave.  The loop is
\* that of CarveAdvance and CarveBacktrack.
RECURSIVE CarveLoop(_, _)
CarveLoop(g, stk) ==
    IF stk = <<>> THEN {g}
    ELSE LET current == CellAt(g, stk[Len(stk)])
             unvisitedNeighbors == getUnvisitedNeighbors(g, current)
         IN  IF Len(unvisitedNeighbors) > 0
             THEN UNION {
                    LET chosen == unvisitedNeighbors[randomIndex]
                    IN  CarveLoop(MarkVisited(removeWall(g, current, chosen),
                                              chosen.row, chosen.col),
                                  Append(stk, Pos(chosen.row, chosen.col)))
                    : randomIndex \in 1..Len(unvisitedNeighbors)}
             ELSE CarveLoop(g, SubSeq(stk, 1, Len(stk) - 1))

\* The grid g written out cell by cell: the same function, held by TLC as a
\* table, which is what a chain of EXCEPTs needs.
RECURSIVE TabulateRow(_, _, _)
TabulateRow(g, r, c) ==
    IF c = 0 THEN (0 :> g[r][0]) ELSE TabulateRow(g, r, c - 1) @@ (c :> g[r][c])

RECURSIVE TabulateRows(_, _)
TabulateRows(g, r) ==
    IF r = 0 THEN (0 :> TabulateRow(g, 0, GridWidth(g) - 1))
    ELSE TabulateRows(g, r - 1) @@ (r :> TabulateRow(g, r, GridWidth(g) - 1))

Tabulate(g) == TabulateRows(g, GridHeight(g) - 1)

carveMaze(g, origin) == CarveLoop(CarveStart(Tabulate(g), origin), <<origin>>)

\* selectRandomFar run to its end: a pass returns its draw when the draw is far
\* enough, and the last pass returns whatever it drew; the last pass is reached
\* only through passes whose draw was too near.
selectRandomFar(w, h) ==
    LET far == {p \in RandomFarDraws(w, h) :
                   Manhattan(p.start, p.end) >= RandomFarMinDistance(w, h)}
    IN  IF far = RandomFarDraws(w, h) THEN far ELSE RandomFarDraws(w, h)

\* selectStartEndPositions for the strategies of the presets.
selectStartEndPositions(g, w, h, strategy) ==
    IF strategy = "opposite-edges" THEN selectOppositeEdges(w, h)
    ELSE selectRandomFar(w, h)

\* generateBestMaze run to its end with a preset configuration (one attempt, no
\* extension, no decoy): the mazes it can return.  enhanceMaze removes no wall
\* then and recomputes the same path, dead ends and metrics.
generateBestMaze(w, h, cfg) ==
    LET carved == {ResetVisited(g) : g \in carveMaze(initializeGrid(w, h), Pos(0, 0))}
        candidates1 ==
            UNION {
                {MazeRecord(g, w, h, se.start, se.end,
                            findShortestPath(MazeRecord(g, w, h, se.start, se.end,
                                                        Null, Null, Null)),
                            Null, Null) :
                    se \in selectStartEndPositions(g, w, h, cfg.placementStrategy)}
                : g \in carved}
        solved == {m \in candidates1 : m.solutionPath # Null}
    IN  {[m EXCEPT !.deadEnds = identifyDeadEnds(m.grid, m.solutionPath, m.end),
                   !.metrics = analyzeMazeQuality(m, m.solutionPath)] : m \in solved}
        \cup (IF solved = candidates1 THEN {}
              ELSE {MazeRecord(g, w, h, Pos(0, 0), Pos(h - 1, w - 1), Null, Null, Null) :
                       g \in carveMaze(initializeGrid(w, h), Pos(0, 0))})

\* generateMazeForDifficulty on a grid of the explored size in place of the
\* preset's dimensions.
generateMazeForDifficulty(level, w, h) ==
    generateBestMaze(w, h, getDifficultyConfig(level).generationConfig)

\* The preset grids are beyond exhaustive play, so the session runs on every
\* grid of at most MaxCellsGame cells.
MaxCellsGame == 6

GameDims == {d \in Dims : d[1] * d[2] <= MaxCellsGame}

\* generateNewMaze: the New Game button, the timer of the first render and the
\* effect that follows a change of difficulty.
GenerateNewMaze ==
    /\ pc = "session"
    /\ \E newMaze \in generateMazeForDifficulty(difficulty, width, height) :
          /\ mazeState' = newMaze
          /\ playerState' = PlayerState(newMaze.start, <<newMaze.start>>, FALSE)
    /\ UNCHANGED <<argVars, difficulty, pc, caller, mazeVars, stack, attempt, candidates,
                   search, enhVars, result>>

\* handleDifficultyChange with another difficulty; once a maze is on screen the
\* effect on the difficulty generates a new one.
HandleDifficultyChange ==
    /\ pc = "session"
    /\ \E newDifficulty \in Difficulties \ {difficulty} :
          /\ difficulty' = newDifficulty
          /\ IF mazeState = Null
             THEN UNCHANGED <<mazeState, playerState>>
             ELSE \E newMaze \in generateMazeForDifficulty(newDifficulty, width, height) :
                     /\ mazeState' = newMaze
                     /\ playerState' = PlayerState(newMaze.start, <<newMaze.start>>, FALSE)
    /\ UNCHANGED <<argVars, pc, caller, mazeVars, stack, attempt, candidates, search,
                   enhVars, result>>

\* handleMove(direction), from an arrow key or a button.
HandleMove ==
    /\ pc = "session"
    /\ \E direction \in Directions :
          IF mazeState = Null \/ playerState.hasWon
          THEN UNCHANGED playerState
          ELSE IF canMove(mazeState, playerState.position, direction)
          THEN LET newPosition == getNewPosition(playerState.position, direction)
                   newPath == updatePath(playerState.path, newPosition)
                   hasWon == checkWin(newPosition, mazeState.end)
               IN  playerState' = PlayerState(newPosition, newPath, hasWon)
          ELSE UNCHANGED playerState
    /\ UNCHANGED <<argVars, difficulty, mazeState, pc, caller, mazeVars, stack, attempt,
                   candidates, search, enhVars, result>>

\* MazeGame is mounted: no maze yet, the player at the top-left corner.
InitGame ==
    /\ \E d \in GameDims : width = d[1] /\ height = d[2]
    /\ config = Null
    /\ pc = "session"
    /\ caller = "none"
    /\ Idle
    /\ difficulty = "medium"
    /\ mazeState = Null
    /\ playerState = PlayerState(Pos(0, 0), <<Pos(0, 0)>>, FALSE)

NextGame == GenerateNewMaze \/ HandleDifficultyChange \/ HandleMove

SpecGame == InitGame /\ [][NextGame]_vars

\* -------------------------------------------------------------- properties
\* The graph of a grid, read off the wall flags without the solver.
CellsOf(g) == {Pos(r, c) : r \in DOMAIN g, c \in DOMAIN g[0]}

Adjacent(a, b) == Manhattan(a, b) = 1

\* The wall flag of cell a on its side toward the adjacent cell b.
FlagToward(g, a, b) ==
    IF b.row = a.row - 1 THEN g[a.row][a.col].walls.top
    ELSE IF b.row = a.row + 1 THEN g[a.row][a.col].walls.bottom
    ELSE IF b.col = a.col - 1 THEN g[a.row][a.col].walls.left
    ELSE g[a.row][a.col].walls.right

Passage(g, a, b) == Adjacent(a, b) /\ ~FlagToward(g, a, b)

WallsAgree(g) ==
    \A a \in CellsOf(g), b \in CellsOf(g) :
        Adjacent(a, b) => FlagToward(g, a, b) = FlagToward(g, b, a)

\* The inner walls with a cleared flag on either side.
RemovedWalls(g) ==
    {e \in InnerWalls(GridWidth(g), GridHeight(g)) :
        ~FlagToward(g, e[1], e[2]) \/ ~FlagToward(g, e[2], e[1])}

BorderIntact(g) ==
    \A p \in CellsOf(g) :
        /\ p.row = 0 => g[p.row][p.col].walls.top
        /\ p.row = GridHeight(g) - 1 => g[p.row][p.col].walls.bottom
        /\ p.col = 0 => g[p.row][p.col].walls.left
        /\ p.col = GridWidth(g) - 1 => g[p.row][p.col].walls.right

RECURSIVE Grow(_, _)
Grow(g, set) ==
    LET next == set \cup {q \in CellsOf(g) : \E p \in set : Passage(g, p, q)}
    IN  IF next = set THEN set ELSE Grow(g, next)

ReachableFrom(g, a) == Grow(g, {a})

\* The least number of cells on a walk of passages from the set `layer` (k cells
\* walked so far) to b; 0 when there is none.
RECURSIVE LayerDistance(_, _, _, _, _)
LayerDistance(g, layer, seen, b, k) ==
    IF b \in layer THEN k
    ELSE LET next == {q \in CellsOf(g) \ seen : \E p \in layer : Passage(g, p, q)}
         IN  IF next = {} THEN 0 ELSE LayerDistance(g, next, seen \cup next, b, k + 1)

LeastCells(g, a, b) == LayerDistance(g, {a}, {a}, b, 1)

RECURSIVE SumOver(_, _)
SumOver(set, f) ==
    IF set = {} THEN 0
    ELSE LET x == CHOOSE y \in set : TRUE IN f[x] + SumOver(set \ {x}, f)

\* The number of simple paths of passages from a to b that avoid `used`.
RECURSIVE SimplePaths(_, _, _, _)
SimplePaths(g, a, b, used) ==
    IF a = b THEN 1
    ELSE LET nexts == {q \in CellsOf(g) \ used : Passage(g, a, q)}
         IN  SumOver(nexts, [q \in nexts |-> SimplePaths(g, q, b, used \cup {q})])

IsOpenPath(g, path, from, to) ==
    /\ Len(path) >= 1
    /\ path[1] = from
    /\ path[Len(path)] = to
    /\ \A i \in 1..(Len(path) - 1) : Passage(g, path[i], path[i + 1])

IsSpanningTree(g) ==
    /\ WallsAgree(g)
    /\ Cardinality(RemovedWalls(g)) = GridWidth(g) * GridHeight(g) - 1
    /\ \A a \in CellsOf(g), b \in CellsOf(g) : SimplePaths(g, a, b, {a}) = 1

\* C1: when carveMaze has run to completion on a fresh width x height grid from
\* (0,0), every cell is visited, exactly width*height - 1 walls are removed and
\* any two cells are joined by exactly one simple path.
C1_CarveSpanningTree ==
    (caller = "generateMaze" /\ pc = "carve" /\ stack = <<>>) =>
        /\ \A p \in CellsOf(grid) : CellAt(grid, p).visited
        /\ IsSpanningTree(grid)

C1_Witness ==
    /\ caller = "generateMaze" /\ pc = "carve" /\ stack = <<>>
    /\ width = 3 /\ height = 3
    /\ Cardinality(RemovedWalls(grid)) = 8

\* C2: for any maze with a solution path and any enhancement config, after
\* enhanceMaze has returned the solver still finds a path from start to end (and
\* the path the maze carries is a path of passages from start to end).
C2_EnhanceKeepsSolvable ==
    \A i \in DOMAIN candidates :
        LET c == candidates[i]
        IN  /\ findShortestPath(c) # Null
            /\ c.end \in ReachableFrom(c.grid, c.start)
            /\ IsOpenPath(c.grid, c.solutionPath, c.start, c.end)

C2_Witness ==
    /\ Len(candidates) = 1
    /\ config.enhancement.deadEndExtensions = 2
    /\ config.enhancement.decoyPathCount = 2
    /\ Cardinality(RemovedWalls(candidates[1].grid)) >= width * height
    /\ findShortestPath(candidates[1]) # Null

\* C3: for each preset and every outcome of the random choices, the returned maze
\* carries a solution path whose first position is start and whose last is end.
C3_PresetHasSolution ==
    pc = "done" =>
        /\ result.solutionPath # Null
        /\ result.solutionPath[1] = result.start
        /\ result.solutionPath[Len(result.solutionPath)] = result.end

C3_Witness ==
    /\ pc = "done"
    /\ config = getDifficultyConfig("hard").generationConfig
    /\ width = 3 /\ height = 3
    /\ Len(result.solutionPath) = 9

\* C4: in every state reached during carving, dead-end extension and decoy
\* carving, the wall flags of adjacent cells agree.
C4_WallsAgree == grid # Null => WallsAgree(grid)

C4_Witness ==
    /\ pc = "decoying"
    /\ walk.done >= 1
    /\ Cardinality(RemovedWalls(grid)) >= width * height + 1
    /\ WallsAgree(grid)

\* C5: across the pipeline (carve, placement, solve, analyze, extend, decoy,
\* re-solve) a wall flag of the maze's grid that is false never becomes true again.
C5_WallsOnlyRemoved ==
    [][(grid # Null /\ grid' # Null) =>
          \A p \in CellsOf(grid) : \A side \in {"top", "right", "bottom", "left"} :
              ~CellAt(grid, p).walls[side] => ~CellAt(grid', p).walls[side]]_vars

C5_Witness ==
    /\ pc = "loop"
    /\ Len(candidates) = 1
    /\ Cardinality(RemovedWalls(grid)) = width * height + 1

\* C6: for every placement strategy, every grid with width >= 2 and height >= 2
\* and every outcome of the random draws, start and end are in-bounds cells and
\* start differs from end.
C6_DistinctEndpoints ==
    (pc = "solve" /\ width >= 2 /\ height >= 2) =>
        /\ isInBounds(start.row, start.col, height, width)
        /\ isInBounds(end.row, end.col, height, width)
        /\ ~positionsEqual(start, end)

\* C7: findShortestPath returns null exactly when end is not reachable from start
\* through open passages; otherwise its result starts at start, ends at end,
\* steps only through passages and has the least number of cells.
C7_ShortestPath ==
    (pc = "done" /\ config = Null /\ caller = "none") =>
        /\ solutionPath = Null <=> end \notin ReachableFrom(grid, start)
        /\ solutionPath # Null =>
              /\ IsOpenPath(grid, solutionPath, start, end)
              /\ Len(solutionPath) = LeastCells(grid, start, end)

C7_Witness ==
    /\ pc = "done" /\ config = Null /\ caller = "none"
    /\ width = 3 /\ height = 2
    /\ Len(solutionPath) = 4
    /\ SimplePaths(grid, start, end, {start}) >= 2

\* C8: with at least one candidate retained, generateBestMaze returns a candidate
\* of maximum scoreMaze value, the first generated among those of that value.
C8_BestIsFirstMaximum ==
    (pc = "done" /\ Len(candidates) # 0) =>
        LET best == {i \in DOMAIN candidates :
                        \A j \in DOMAIN candidates :
                            ~FLess(scoreMaze(candidates[i], config),
                                   scoreMaze(candidates[j], config))}
            first == CHOOSE i \in best : \A j \in best : i <= j
        IN  result = candidates[first]

C8_Witness ==
    /\ pc = "done"
    /\ Len(candidates) = 2
    /\ FLess(scoreMaze(candidates[1], config), scoreMaze(candidates[2], config))
    /\ result = candidates[2]

\* C9: when generateBestMaze ends its attempts with no candidate retained, it
\* returns a carved maze with start (0,0), end (height-1, width-1) and no solution
\* path, dead-end list or metrics.
C9_FallbackMaze ==
    (pc = "done" /\ Len(candidates) = 0 /\ config # Null) =>
        /\ result.start = Pos(0, 0)
        /\ result.end = Pos(height - 1, width - 1)
        /\ result.solutionPath = Null
        /\ result.deadEnds = Null
        /\ result.metrics = Null
        /\ result.width = width /\ result.height = height
        /\ IsSpanningTree(result.grid)

C9_Witness ==
    /\ pc = "done"
    /\ config # Null
    /\ config.qualityAttempts = 0
    /\ width = 3 /\ height = 2
    /\ result.end = Pos(1, 2)

\* C10: the complexity score of analyzeMazeQuality lies in [0, 100], and its four
\* terms are non-negative and at most 30 (length), 30 (tortuosity), 25 (dead
\* ends) and 15 (decoys).
InRange(x, hi) == ~FLess(x, FInt(0)) /\ ~FLess(FInt(hi), x)

C10_ComplexityInRange ==
    metrics # Null =>
        LET t == ComplexityTerms(metrics.solutionLength, metrics.solutionTortuosity,
                                 metrics.averageDeadEndLength, metrics.decoyDeadEnds,
                                 width, height)
        IN  /\ InRange(t.lengthScore, 30)
            /\ InRange(t.tortuosityScore, 30)
            /\ InRange(t.deadEndScore, 25)
            /\ InRange(t.decoyScore, 15)
            /\ InRange(metrics.complexityScore, 100)

C10_Witness ==
    /\ metrics # Null
    /\ config = Null
    /\ metrics.solutionLength = 6
    /\ metrics.solutionTortuosity = <<2, 1>>
    /\ FLess(FInt(50), metrics.complexityScore)

\* C11: every entry returned by identifyDeadEnds, on any grid, has depth >= 1.
C11_DepthAtLeastOne ==
    deadEnds # Null => \A i \in DOMAIN deadEnds : deadEnds[i].depth >= 1

C11_Witness ==
    /\ pc = "done" /\ config = Null
    /\ deadEnds # Null
    /\ Len(deadEnds) >= 3
    /\ \E i \in DOMAIN deadEnds :
          \E n \in Range(getValidNeighbors(grid, CellAt(grid, deadEnds[i].position))) :
              countOpenings(n) = 2

\* C12: during extendDeadEnds on a carved maze, for any config, no junction is
\* created: every cell whose walls a step of the extension changes has at most
\* two openings after it.  Openings only grow and each growth is such a change,
\* so the cells changed have at most two openings when extendDeadEnds returns.
C12_ExtensionNoJunction ==
    [][pc = "extending" =>
          \A p \in CellsOf(grid) :
              CellAt(grid', p).walls # CellAt(grid, p).walls =>
                  countOpenings(CellAt(grid', p)) <= 2]_vars

C12_Witness ==
    /\ pc = "extend"
    /\ walk # Null
    /\ walk.done >= 1
    /\ Cardinality(RemovedWalls(grid)) = width * height
    /\ \A p \in CellsOf(grid) : countOpenings(CellAt(grid, p)) <= 2

\* C13: during addDecoyPaths on a carved maze with its solution path, for any
\* count, no junction of more than two openings is created: every cell whose
\* walls a step of carveDecoyPath changes (the branch start cell included) has at
\* most two openings after it.
C13_DecoyNoJunction ==
    [][pc = "decoying" =>
          \A p \in CellsOf(grid) :
              CellAt(grid', p).walls # CellAt(grid, p).walls =>
                  countOpenings(CellAt(grid', p)) <= 2]_vars

\* C14: addDecoyPaths never carves into a cell of the solution path it is given:
\* no step of it changes a wall flag of a cell on that path.
C14_PathCellsUntouched ==
    [][(pc = "decoy" \/ pc = "decoying") =>
          \A p \in Range(solutionPath) : CellAt(grid', p) = CellAt(grid, p)]_vars

C14_Witness ==
    /\ pc = "decoy"
    /\ Len(work) = 2
    /\ idx = 2
    /\ walk.done >= 1
    /\ Len(solutionPath) >= 4
    /\ Cardinality(RemovedWalls(grid)) >= width * height + 1

\* C15: when addDecoyPaths is called with count = 2 on a maze with at least two
\* branch candidates, the number of removed walls grows by at least the sum of the
\* two decoy lengths drawn, hence by at least 6: each carveDecoyPath returns
\* having carved the length it drew.  Stated for runs without extensions, where
\* width * height - 1 walls are removed when addDecoyPaths is entered.
C15_DecoysReachLength ==
    (/\ pc = "decoy"
     /\ config.enhancement.deadEndExtensions = 0
     /\ config.enhancement.decoyPathCount = 2
     /\ Len(work) = 2
     /\ idx >= 1) =>
        /\ walk.done >= walk.targetLength
        /\ idx = 2 => Cardinality(RemovedWalls(grid)) >= width * height - 1 + 2 * DECOY_MIN_LENGTH

C17_EasyOppositeEdges ==
    /\ getDifficultyConfig("easy").dimensions = [width |-> 10, height |-> 10]
    /\ getDifficultyConfig("easy").generationConfig.placementStrategy = "opposite-edges"
    /\ (pc = "done" /\ config = getDifficultyConfig("easy").generationConfig) =>
           /\ result.width = width /\ result.height = height
           /\ \/ result.start.row = 0 /\ result.end.row = height - 1
              \/ result.start.col = 0 /\ result.end.col = width - 1

C17_Witness ==
    /\ pc = "done"
    /\ config = getDifficultyConfig("easy").generationConfig
    /\ width = 3 /\ height = 3
    /\ result.start = Pos(0, 1)
    /\ result.end = Pos(2, 1)

\* C18: removeWall called with two cells that are not axis-adjacent signals an
\* error and is not a silent no-op; in particular it clears no wall flag.
C18_NonAdjacentRejected ==
    (pc = "done" /\ caller \in {"generator", "enhancer"}
        /\ ~Adjacent(walk.cell1, walk.cell2)) =>
        /\ result.threw
        /\ grid = initializeGrid(width, height)

\* C19: every maze generateBestMaze returns, as the best candidate or as the
\* fallback and for any qualityAttempts, has visited = false on every cell.
C19_VisitedReset ==
    (pc = "done" /\ config # Null) =>
        \A p \in CellsOf(result.grid) : ~CellAt(result.grid, p).visited

\* C20: the three presets have deadEndExtensions = 0 and decoyPathCount = 0, and
\* with them enhanceMaze removes no wall: the grid of the maze returned is the
\* grid carving left (visited flags aside), a perfect maze with
\* width * height - 1 open passages.
C20_PresetsKeepCarvedGrid ==
    /\ \A x \in Difficulties :
          LET enhancement == getDifficultyConfig(x).generationConfig.enhancement
          IN  enhancement.deadEndExtensions = 0 /\ enhancement.decoyPathCount = 0
    /\ pc = "done" =>
          /\ result.grid = grid
          /\ Len(candidates) = 1
          /\ IsSpanningTree(result.grid)
          /\ Cardinality(RemovedWalls(result.grid)) = width * height - 1
          /\ BorderIntact(result.grid)

C20_Witness ==
    /\ pc = "done"
    /\ config = getDifficultyConfig("medium").generationConfig
    /\ width = 3 /\ height = 3
    /\ Cardinality(RemovedWalls(result.grid)) = 8
    /\ Len(result.deadEnds) >= 3

PlayerAtStart(m) == PlayerState(m.start, <<m.start>>, FALSE)

\* A step of the session that changed playerState on the maze on screen and is
\* not the reset of a newly generated copy of it: a move.
Moved ==
    /\ mazeState # Null
    /\ mazeState' = mazeState
    /\ playerState' # playerState
    /\ playerState' # PlayerAtStart(mazeState)

\* C22: a move request changes the player position only to the in-bounds cell
\* next to it in the requested direction and only when the player's cell has no
\* wall on that side; a request that does not move the player leaves the trail
\* and hasWon as they are; so the position is always an in-bounds cell that open
\* passages join to start.
C22_Step ==
    /\ Moved =>
          /\ playerState'.position \in CellsOf(mazeState.grid)
          /\ \E direction \in Directions :
                /\ playerState'.position = getNewPosition(playerState.position, direction)
                /\ ~FlagToward(mazeState.grid, playerState.position, playerState'.position)
    /\ mazeState' # Null =>
          /\ playerState'.position \in CellsOf(mazeState'.grid)
          /\ playerState'.position \in ReachableFrom(mazeState'.grid, mazeState'.start)

C22_LegalMovesOnly == [][C22_Step]_vars

\* The player has walked two cells and stands beside a wall inside the grid.
C22_Witness ==
    /\ mazeState # Null
    /\ Len(playerState.path) >= 3
    /\ \E direction \in Directions :
          /\ getNewPosition(playerState.position, direction) \in CellsOf(mazeState.grid)
          /\ ~canMove(mazeState, playerState.position, direction)

\* C23: a move to the second-to-last cell of the trail removes the last cell of
\* the trail and any other move appends the new position; so the trail is never
\* empty, begins at start, ends at the player position, and each cell of it is
\* joined to the next by an open passage.
C23_Step ==
    /\ Moved =>
          LET path == playerState.path
              newPosition == playerState'.position
          IN  playerState'.path =
                  IF Len(path) >= 2 /\ path[Len(path) - 1] = newPosition
                  THEN SubSeq(path, 1, Len(path) - 1)
                  ELSE Append(path, newPosition)
    /\ mazeState' # Null =>
          IsOpenPath(mazeState'.grid, playerState'.path, mazeState'.start,
                     playerState'.position)

C23_TrailTrimsOnBacktrack == [][C23_Step]_vars

\* The player stepped back after walking two cells or more.
C23_Witness ==
    /\ mazeState # Null
    /\ Len(playerState.path) >= 2
    /\ playerState.position # mazeState.start
    /\ playerState.path[1] = mazeState.start
    /\ ~playerState.hasWon
    /\ \E direction \in Directions :
          /\ canMove(mazeState, playerState.position, direction)
          /\ ~isBacktracking(playerState.path,
                             getNewPosition(playerState.position, direction))
          /\ Len(playerState.path) >= 3

\* The cells of the corridor that leaves cell cur away from prev, counted up to
\* the first cell that does not have exactly two openings; n cells so far.
RECURSIVE CorridorCells(_, _, _, _)
CorridorCells(g, prev, cur, n) ==
    LET onward == {q \in CellsOf(g) : Passage(g, cur, q) /\ q # prev}
    IN  IF onward = {} \/ n >= GridWidth(g) * GridHeight(g) THEN n
        ELSE LET q == CHOOSE x \in onward : TRUE
             IN  IF countOpenings(CellAt(g, q)) = 2
                 THEN CorridorCells(g, cur, q, n + 1)
                 ELSE n

\* C24: the depth recorded for a dead end is the number of cells of its
\* corridor: the dead-end cell plus every consecutive cell with exactly two
\* openings walked from it, stopping before the first junction.
C24_DepthIsCorridorLength ==
    (pc = "done" /\ deadEnds # Null) =>
        \A i \in 1..Len(deadEnds) :
            deadEnds[i].depth = CorridorCells(grid, deadEnds[i].position,
                                              deadEnds[i].position, 1)

\* The band of the three-tier schedule for the solution-path index i on a path
\* of n cells: i / n below 0.3, below 0.7, or above.
ScheduleBand(i, n) ==
    IF 10 * i < 3 * n THEN 5..8
    ELSE IF 10 * i < 7 * n THEN 3..5
    ELSE 2..3

\* C25: when extendDeadEnds calls extendDeadEnd for a selected dead end, the
\* target length it drew for that dead end lies in the band of the schedule for
\* the dead end's solution-path index over the path length (index 0 is in the
\* first band) when prioritizeEarlyDeadEnds is set, and is deadEndMinLength
\* otherwise.
C25_Step ==
    (pc = "extend" /\ pc' = "extending") =>
        LET deadEnd == work[idx + 1]
            targetLength == walk'.targetLength + deadEnd.depth
        IN  IF config.enhancement.prioritizeEarlyDeadEnds
            THEN targetLength \in ScheduleBand(deadEnd.distanceAlongSolution,
                                               Len(solutionPath))
            ELSE targetLength = config.enhancement.deadEndMinLength

C25_TargetFollowsSchedule == [][C25_Step]_vars

\* C26: the capped loops end and return their partial count: from any cell of
\* any grid calculateDeadEndDepth leaves its loop within 1000 iterations; every
\* pass of extendDeadEnd and of carveDecoyPath adds one to an iteration count
\* that never exceeds 100, removes one wall exactly when it adds one to the
\* count it returns, and that count never exceeds the target length.
C26_Step ==
    /\ pc = "solve" =>
          \A p \in CellsOf(grid) :
              DepthLoopIterations(grid, CellAt(grid, p), {}, 0) <= MAX_ITERATIONS_DEPTH
    /\ (pc = "extending" \/ pc = "decoying") =>
          /\ walk'.iterations = walk.iterations + 1
          /\ walk'.iterations <= MAX_ITERATIONS_WALK
          /\ walk'.done <= walk'.targetLength
          /\ Cardinality(RemovedWalls(grid')) - Cardinality(RemovedWalls(grid))
                = walk'.done - walk.done
          /\ walk'.done - walk.done \in {0, 1}

C26_CappedLoopsEnd == [][C26_Step]_vars

\* An extension and a decoy path have both returned having removed walls, one
\* of them fewer than its target.
C26_Witness ==
    /\ pc = "decoy"
    /\ walk # Null
    /\ walk.done >= 2
    /\ walk.done < walk.targetLength
    /\ walk.iterations > walk.done

\* The side of cell a that faces the adjacent cell b.
SideToward(a, b) ==
    IF b.row = a.row - 1 THEN "top"
    ELSE IF b.row = a.row + 1 THEN "bottom"
    ELSE IF b.col = a.col - 1 THEN "left"
    ELSE "right"

\* From grid g to grid g2 the two flags of the wall between a and b went from
\* set to cleared and no other wall flag changed.
OnePairCleared(g, g2, a, b) ==
    /\ FlagToward(g, a, b) /\ FlagToward(g, b, a)
    /\ \A p \in CellsOf(g), side \in {"top", "right", "bottom", "left"} :
          g2[p.row][p.col].walls[side] =
              IF (p = a /\ side = SideToward(a, b)) \/ (p = b /\ side = SideToward(b, a))
              THEN FALSE
              ELSE g[p.row][p.col].walls[side]

\* The two cells of a removeWall call: in bounds and next to each other along
\* one axis, and the call clears their one shared wall.
AdjacentPairCleared(g, g2, a, b) ==
    /\ a \in CellsOf(g) /\ b \in CellsOf(g)
    /\ (Abs(a.row - b.row) = 1 /\ a.col = b.col) \/ (Abs(a.col - b.col) = 1 /\ a.row = b.row)
    /\ OnePairCleared(g, g2, a, b)

\* C27: every removeWall call of carveMaze (the stack top and the cell pushed),
\* of extendDeadEnd and of carveDecoyPath (the current cell and the cell stepped
\* into) is given two in-bounds cells that differ by 1 in exactly one
\* coordinate and clears exactly the matching flag pair between them; no flag
\* on the outer border is ever cleared.
C27_Step ==
    /\ (pc = "carve" /\ Len(stack') > Len(stack)) =>
          AdjacentPairCleared(grid, grid', stack[Len(stack)], stack'[Len(stack')])
    /\ ((pc = "extending" \/ pc = "decoying") /\ walk'.done > walk.done) =>
          AdjacentPairCleared(grid, grid', walk.current, walk'.current)
    /\ grid' # Null => BorderIntact(grid')

C27_RemoveWallOnNeighbours == [][C27_Step]_vars

\* Walls were removed by the carver, by an extension and by a decoy path.
C27_Witness ==
    /\ pc = "decoy"
    /\ walk # Null
    /\ walk.done >= 1
    /\ Cardinality(RemovedWalls(grid)) >= width * height + 1

\* C28: while enhanceMaze runs on a solved maze the solution path found before
\* it stays a path of open passages from start to end in the grid, and the
\* solution path enhanceMaze stores at its end has at most as many cells.
C28_Step ==
    /\ (solutionPath # Null /\ grid' # Null /\ pc # "loop" /\ solutionPath' # Null) =>
          IsOpenPath(grid', solutionPath, start, end)
    /\ (pc = "decoy" /\ pc' = "loop") =>
          Len(solutionPath') <= Len(solutionPath)

C28_SolutionNotLonger == [][C28_Step]_vars

\* enhanceMaze is about to return on a grid where its extensions and decoys
\* opened a way from start to end shorter than the solution found before.
C28_Witness ==
    /\ pc = "decoy"
    /\ ~(idx < Len(work))
    /\ LeastCells(grid, start, end) < Len(solutionPath)

\* C29: every maze the session shows is a perfect maze, and on it the player's
\* trail holds no cell twice and is a path of open passages from start to the
\* player's position, that is the one simple path between them.
C29_TrailIsTheSimplePath ==
    mazeState # Null =>
        /\ IsSpanningTree(mazeState.grid)
        /\ \A i \in 1..Len(playerState.path), j \in 1..Len(playerState.path) :
              playerState.path[i] = playerState.path[j] => i = j
        /\ IsOpenPath(mazeState.grid, playerState.path, mazeState.start,
                      playerState.position)
        /\ SimplePaths(mazeState.grid, mazeState.start, playerState.position,
                       {mazeState.start}) = 1

\* The trail is four cells long or more and passes through a junction, a cell
\* with a side branch the player may have entered and left.
C29_Witness ==
    /\ mazeState # Null
    /\ Len(playerState.path) >= 4
    /\ \E p \in CellsOf(mazeState.grid) :
          /\ countOpenings(CellAt(mazeState.grid, p)) >= 3
          /\ \E i \in 1..(Len(playerState.path) - 1) : playerState.path[i] = p

\* C30: hasWon is set by a move exactly when the move's destination is the maze
\* end; once it is set no move request changes the player state; a change of
\* maze, and any change of a player who has won, leaves the player at the new
\* start with the trail [start] and hasWon false.
C30_Step ==
    /\ Moved =>
          /\ ~playerState.hasWon
          /\ playerState'.hasWon <=> playerState'.position = mazeState.end
    /\ (playerState.hasWon /\ playerState' # playerState) =>
          playerState' = PlayerAtStart(mazeState')
    /\ mazeState' # mazeState => playerState' = PlayerAtStart(mazeState')

C30_WinFreezesPlayer == [][C30_Step]_vars

\* The player has won after a walk of two moves or more on a maze whose end is
\* in the row of another cell of the trail.
C30_Witness ==
    /\ mazeState # Null
    /\ playerState.hasWon
    /\ Len(playerState.path) >= 3
    /\ \E i \in 1..(Len(playerState.path) - 1) :
          playerState.path[i].row = mazeState.end.row

====
